---- MODULE Spec2Model ----
(***************************************************************************)
(* A model of python_sql: the B+-tree index (python_sql/b_tree.py), the    *)
(* table and executor (python_sql/database.py) and the expression layer.   *)
(* Python objects live in a heap of records addressed by node id, so that  *)
(* aliasing (a neighbour that still points at a replaced leaf) is kept.    *)
(***************************************************************************)
EXTENDS Integers, Sequences, FiniteSets, TLC

(***************************************************************************)
(* Bounds of the model.                                                    *)
(***************************************************************************)
MaxKey == 7
MaxRepl == 1
MaxDegree == 4

\* Python's None, for a missing sibling, a missing split key, a missing bound.
None == 0 - 1

Keys == 1..MaxKey
\* BTree.__init__(degree): the branching factors the model builds trees with.
Degrees == 3..MaxDegree

VARIABLES tree, last, nrepl, tables, data, command, result

vars == <<tree, last, nrepl, tables, data, command, result>>

(***************************************************************************)
(* Sequence helpers (Python list operations).                              *)
(***************************************************************************)
\* list[i:i] = [x] with a 1-based position i.
InsertAt(s, i, x) == SubSeq(s, 1, i - 1) \o <<x>> \o SubSeq(s, i, Len(s))

RECURSIVE Reverse(_)
\* reversed(list)
Reverse(s) == IF s = <<>> THEN <<>> ELSE Reverse(Tail(s)) \o <<Head(s)>>

\* The set of elements of a list.
Range(s) == {s[i] : i \in 1..Len(s)}

\* for i, k in enumerate(keys): if key < k: ...  the first such position,
\* Len(keys) + 1 when the loop falls through.
FirstGreater(keys, key) ==
    IF \E i \in 1..Len(keys) : key < keys[i]
    THEN CHOOSE i \in 1..Len(keys) :
            /\ key < keys[i]
            /\ \A j \in 1..(i - 1) : ~(key < keys[j])
    ELSE Len(keys) + 1

\* for i, k in enumerate(keys): if k == key: ...  the first such position, 0 if none.
IndexOf(keys, key) ==
    IF \E i \in 1..Len(keys) : keys[i] = key
    THEN CHOOSE i \in 1..Len(keys) :
            /\ keys[i] = key
            /\ \A j \in 1..(i - 1) : keys[j] # key
    ELSE 0

(***************************************************************************)
(* Nodes.  A tree is [degree, root, heap]; heap[id] is a node object.      *)
(***************************************************************************)
LeafNode == [leaf |-> TRUE, keys |-> <<>>, values |-> <<>>, children |-> <<>>,
             prev |-> None, next |-> None]

InteriorNode == [leaf |-> FALSE, keys |-> <<>>, values |-> <<>>, children |-> <<>>,
                 prev |-> None, next |-> None]

set_siblings_pair(h, left, right) ==
    [h EXCEPT ![left].next = right, ![right].prev = left]

\* a leaf taken as full one key early
has_key_space_early(n, d) == Len(n.keys) < d - 2

has_key_space(n, d) == Len(n.keys) < d - 1

has_value_space(n, d) == Len(n.keys) < d

\* BTree(degree): one empty leaf as root.
BTree(d) == [degree |-> d, root |-> 1, heap |-> <<LeafNode>>]

(***************************************************************************)
(* Insert.  Each insert returns [heap, split_key, result], result being    *)
(* the list of node ids that replace the node in its parent.               *)
(***************************************************************************)
LeafNode_set_key_value(h, id, key, value) ==
    LET i == IndexOf(h[id].keys, key)
    IN  IF i = 0 THEN h ELSE [h EXCEPT ![id].values[i] = value]

\* a split that hands up the last key of the left leaf
LeafNode_insert_left_key(h, d, id, key, value) ==
    LET n == h[id]
        pos == FirstGreater(n.keys, key)
        keys2 == InsertAt(n.keys, pos, key)
        values2 == InsertAt(n.values, pos, value)
        h2 == [h EXCEPT ![id].keys = keys2, ![id].values = values2]
        half == Len(keys2) \div 2
        l == Len(h) + 1
        r == Len(h) + 2
        left == [LeafNode EXCEPT !.keys = SubSeq(keys2, 1, half),
                                 !.values = SubSeq(values2, 1, half)]
        right == [LeafNode EXCEPT !.keys = SubSeq(keys2, half + 1, Len(keys2)),
                                  !.values = SubSeq(values2, half + 1, Len(values2))]
    IN  IF IndexOf(n.keys, key) # 0
        THEN [heap |-> LeafNode_set_key_value(h, id, key, value),
              split_key |-> None, result |-> <<id>>]
        ELSE IF has_key_space(n, d)
        THEN [heap |-> h2, split_key |-> None, result |-> <<id>>]
        ELSE [heap |-> set_siblings_pair(h2 \o <<left, right>>, l, r),
              split_key |-> left.keys[Len(left.keys)], result |-> <<l, r>>]

LeafNode_insert(h, d, id, key, value) ==
    LET n == h[id]
        pos == FirstGreater(n.keys, key)
        keys2 == InsertAt(n.keys, pos, key)
        values2 == InsertAt(n.values, pos, value)
        h2 == [h EXCEPT ![id].keys = keys2, ![id].values = values2]
        half == Len(keys2) \div 2
        l == Len(h) + 1
        r == Len(h) + 2
        left == [LeafNode EXCEPT !.keys = SubSeq(keys2, 1, half),
                                 !.values = SubSeq(values2, 1, half)]
        right == [LeafNode EXCEPT !.keys = SubSeq(keys2, half + 1, Len(keys2)),
                                  !.values = SubSeq(values2, half + 1, Len(values2))]
    IN  IF IndexOf(n.keys, key) # 0
        THEN [heap |-> LeafNode_set_key_value(h, id, key, value),
              split_key |-> None, result |-> <<id>>]
        ELSE IF has_key_space(n, d)
        THEN [heap |-> h2, split_key |-> None, result |-> <<id>>]
        ELSE [heap |-> set_siblings_pair(h2 \o <<left, right>>, l, r),
              split_key |-> right.keys[1], result |-> <<l, r>>]

RECURSIVE Node_insert(_, _, _, _, _)

InteriorNode_insert(h, d, id, key, value) ==
    LET n == h[id]
        fg == FirstGreater(n.keys, key)
        index == IF fg <= Len(n.keys) THEN fg ELSE Len(n.children)
        sub == Node_insert(h, d, n.children[index], key, value)
        children2 == SubSeq(n.children, 1, index - 1) \o sub.result
                        \o SubSeq(n.children, index + 1, Len(n.children))
        h1 == sub.heap
        h2 == IF index > 1
              THEN set_siblings_pair(h1, children2[index - 1], children2[index])
              ELSE h1
        h3 == IF index + 1 < Len(children2)
              THEN set_siblings_pair(h2, children2[index + 1], children2[index + 2])
              ELSE h2
        keys2 == IF Len(sub.result) > 1
                 THEN InsertAt(n.keys, index, sub.split_key)
                 ELSE n.keys
        h4 == [h3 EXCEPT ![id].keys = keys2, ![id].children = children2]
        half == Len(keys2) \div 2
        l == Len(h4) + 1
        r == Len(h4) + 2
        left == [InteriorNode EXCEPT !.keys = SubSeq(keys2, 1, half),
                                     !.children = SubSeq(children2, 1, half + 1)]
        right == [InteriorNode EXCEPT !.keys = SubSeq(keys2, half + 2, Len(keys2)),
                                      !.children = SubSeq(children2, half + 2, Len(children2))]
    IN  IF ~has_value_space(h4[id], d)
        THEN [heap |-> h4 \o <<left, right>>,
              split_key |-> keys2[half + 1], result |-> <<l, r>>]
        ELSE [heap |-> h4, split_key |-> None, result |-> <<id>>]

Node_insert(h, d, id, key, value) ==
    IF h[id].leaf
    THEN LeafNode_insert(h, d, id, key, value)
    ELSE InteriorNode_insert(h, d, id, key, value)

(***************************************************************************)
(* Objects no reference leads to are reclaimed, and an object's id is its  *)
(* position in the order in which the references reach it from the root    *)
(* (children first, then prev_sibling, then next_sibling).                 *)
(***************************************************************************)
\* The references an object holds, in order.
Refs(n) ==
    n.children \o (IF n.prev = None THEN <<>> ELSE <<n.prev>>)
               \o (IF n.next = None THEN <<>> ELSE <<n.next>>)

RECURSIVE AddNew(_, _)
\* list extended by the ids of refs it does not hold yet.
AddNew(list, refs) ==
    IF refs = <<>> THEN list
    ELSE IF Head(refs) \in Range(list) THEN AddNew(list, Tail(refs))
    ELSE AddNew(Append(list, Head(refs)), Tail(refs))

RECURSIVE Reach(_, _, _)
\* The objects reachable from list[i..], breadth first.
Reach(h, list, i) ==
    IF i > Len(list) THEN list
    ELSE Reach(h, AddNew(list, Refs(h[list[i]])), i + 1)

RECURSIVE PosIn(_, _, _)
\* The position of id in list from position i on (None stays None).
PosIn(list, id, i) ==
    IF id = None THEN None
    ELSE IF list[i] = id THEN i
    ELSE PosIn(list, id, i + 1)

RECURSIVE MoveIds(_, _)
\* A list of ids, each replaced by its position in list.
MoveIds(list, ids) ==
    IF ids = <<>> THEN <<>>
    ELSE <<PosIn(list, Head(ids), 1)>> \o MoveIds(list, Tail(ids))

RECURSIVE MoveHeap(_, _, _)
\* The objects list[i..] of h, their references renamed to positions in list.
MoveHeap(h, list, i) ==
    IF i > Len(list) THEN <<>>
    ELSE LET n == h[list[i]]
         IN  <<[leaf |-> n.leaf, keys |-> n.keys, values |-> n.values,
                children |-> MoveIds(list, n.children),
                prev |-> PosIn(list, n.prev, 1),
                next |-> PosIn(list, n.next, 1)]>> \o MoveHeap(h, list, i + 1)

\* The tree with its reachable objects only, renumbered in order of reach.
Compact(t) ==
    LET list == Reach(t.heap, <<t.root>>, 1)
    IN  [degree |-> t.degree, root |-> 1, heap |-> MoveHeap(t.heap, list, 1)]

\* BTree.__setitem__
BTree_setitem(t, key, value) ==
    LET res == Node_insert(t.heap, t.degree, t.root, key, value)
        newroot == [InteriorNode EXCEPT !.keys = <<res.split_key>>,
                                        !.children = res.result]
    IN  IF Len(res.result) > 1
        THEN Compact([t EXCEPT !.heap = res.heap \o <<newroot>>,
                               !.root = Len(res.heap) + 1])
        ELSE Compact([t EXCEPT !.heap = res.heap, !.root = res.result[1]])

(***************************************************************************)
(* Lookup.                                                                 *)
(***************************************************************************)
RECURSIVE search_for_node(_, _, _)
\* InteriorNode.search_for_node / LeafNode.search_for_node: the id of the leaf.
search_for_node(h, id, key) ==
    IF h[id].leaf
    THEN id
    ELSE LET fg == FirstGreater(h[id].keys, key)
             index == IF fg <= Len(h[id].keys) THEN fg ELSE Len(h[id].children)
         IN  search_for_node(h, h[id].children[index], key)

\* LeafNode.search: [found, value]; found = FALSE is the raised KeyError.
LeafNode_search(n, key) ==
    LET i == IndexOf(n.keys, key)
    IN  IF i = 0 THEN [found |-> FALSE, value |-> None]
        ELSE [found |-> TRUE, value |-> n.values[i]]

\* The descent of InteriorNode.search with "key <= k" for "key < k".
InteriorNode_search_child_le(n, key) ==
    IF \E i \in 1..Len(n.keys) : key <= n.keys[i]
    THEN n.children[CHOOSE i \in 1..Len(n.keys) :
                        /\ key <= n.keys[i]
                        /\ \A j \in 1..(i - 1) : ~(key <= n.keys[j])]
    ELSE n.children[Len(n.children)]

\* InteriorNode.search: the child the search goes down to: the first child whose
\* separator exceeds key, else the last child.
InteriorNode_search_child(n, key) ==
    IF FirstGreater(n.keys, key) <= Len(n.keys)
    THEN n.children[FirstGreater(n.keys, key)]
    ELSE n.children[Len(n.children)]

RECURSIVE Node_search(_, _, _)
\* InteriorNode.search / LeafNode.search
Node_search(h, id, key) ==
    IF h[id].leaf
    THEN LeafNode_search(h[id], key)
    ELSE Node_search(h, InteriorNode_search_child(h[id], key), key)

\* BTree.__getitem__ with a key (not a slice).
BTree_getitem(t, key) == Node_search(t.heap, t.root, key)

\* BTree.__contains__
BTree_contains(t, key) == BTree_getitem(t, key).found

\* BTree.search: the value, or None.
BTree_search(t, key) ==
    IF BTree_getitem(t, key).found THEN BTree_getitem(t, key).value ELSE None

(***************************************************************************)
(* Iteration along the leaf list.                                          *)
(***************************************************************************)
RECURSIVE LeftmostLeaf(_, _)
\* while type(node) != LeafNode: node = node.children[0]
LeftmostLeaf(h, id) ==
    IF h[id].leaf THEN id ELSE LeftmostLeaf(h, h[id].children[1])

RECURSIVE RightmostLeaf(_, _)
\* while type(node) != LeafNode: node = node.children[-1]
RightmostLeaf(h, id) ==
    IF h[id].leaf THEN id ELSE RightmostLeaf(h, h[id].children[Len(h[id].children)])

RECURSIVE WalkNext(_, _, _)
\* while node is not None: ...; node = node.next_sibling   -- the nodes visited.
\* fuel bounds the walk by the number of objects; a walk that exhausts it
\* is a cycle of sibling links (the Python loop would not end).
WalkNext(h, id, fuel) ==
    IF id = None \/ fuel = 0 THEN <<>>
    ELSE <<id>> \o WalkNext(h, h[id].next, fuel - 1)

RECURSIVE WalkPrev(_, _, _)
\* while node is not None: ...; node = node.prev_sibling   -- the nodes visited.
WalkPrev(h, id, fuel) ==
    IF id = None \/ fuel = 0 THEN <<>>
    ELSE <<id>> \o WalkPrev(h, h[id].prev, fuel - 1)

RECURSIVE IterNext(_, _, _)
\* while node is not None: for k in node.keys: yield k; node = node.next_sibling
IterNext(h, id, fuel) ==
    IF id = None \/ fuel = 0 THEN <<>>
    ELSE h[id].keys \o IterNext(h, h[id].next, fuel - 1)

RECURSIVE IterPrev(_, _, _)
\* while node is not None: for k in reversed(node.keys): yield k; node = node.prev_sibling
IterPrev(h, id, fuel) ==
    IF id = None \/ fuel = 0 THEN <<>>
    ELSE Reverse(h[id].keys) \o IterPrev(h, h[id].prev, fuel - 1)

RECURSIVE SizeNext(_, _, _)
\* while node is not None: size += len(node.keys); node = node.next_sibling
SizeNext(h, id, fuel) ==
    IF id = None \/ fuel = 0 THEN 0
    ELSE Len(h[id].keys) + SizeNext(h, h[id].next, fuel - 1)

\* BTree.__iter__
BTree_iter(t) == IterNext(t.heap, LeftmostLeaf(t.heap, t.root), Len(t.heap) + 1)

\* BTree.__reversed__
BTree_reversed(t) == IterPrev(t.heap, RightmostLeaf(t.heap, t.root), Len(t.heap) + 1)

\* BTree.__len__
BTree_len(t) == SizeNext(t.heap, LeftmostLeaf(t.heap, t.root), Len(t.heap) + 1)

(***************************************************************************)
(* Range iteration: tree[start:stop], with None for an omitted bound.      *)
(***************************************************************************)
RECURSIVE SliceLeafForward(_, _, _, _)
\* for i, k in enumerate(node.keys): the values one leaf yields from position i
\* on when start is given; the break leaves this leaf's loop only.
SliceLeafForward(n, i, start, end) ==
    IF i > Len(n.keys) THEN <<>>
    ELSE IF n.keys[i] >= start
    THEN IF end # None /\ n.keys[i] < end
         THEN <<n.values[i]>> \o SliceLeafForward(n, i + 1, start, end)
         ELSE IF end # None
         THEN <<>>
         ELSE <<n.values[i]>> \o SliceLeafForward(n, i + 1, start, end)
    ELSE SliceLeafForward(n, i + 1, start, end)

RECURSIVE SliceLeafBackward(_, _, _)
\* for i, k in enumerate(reversed(node.keys)): if k < end: yield the value, from
\* position i (counted from the right end) on.
SliceLeafBackward(n, i, end) ==
    IF i < 1 THEN <<>>
    ELSE IF n.keys[i] < end
    THEN <<n.values[i]>> \o SliceLeafBackward(n, i - 1, end)
    ELSE SliceLeafBackward(n, i - 1, end)

RECURSIVE SliceForward(_, _, _, _, _)
\* start is given: while node is not None: ...; node = node.next_sibling
SliceForward(h, id, start, end, fuel) ==
    IF id = None \/ fuel = 0 THEN <<>>
    ELSE SliceLeafForward(h[id], 1, start, end)
            \o SliceForward(h, h[id].next, start, end, fuel - 1)

RECURSIVE SliceBackward(_, _, _, _)
\* only stop is given: while node is not None: ...; node = node.prev_sibling
SliceBackward(h, id, end, fuel) ==
    IF id = None \/ fuel = 0 THEN <<>>
    ELSE SliceLeafBackward(h[id], Len(h[id].keys), end)
            \o SliceBackward(h, h[id].prev, end, fuel - 1)

RECURSIVE SliceAll(_, _, _)
\* no bound: while node is not None: for v in node.values: yield v; node = node.next_sibling
SliceAll(h, id, fuel) ==
    IF id = None \/ fuel = 0 THEN <<>>
    ELSE h[id].values \o SliceAll(h, h[id].next, fuel - 1)

\* BTree._slice, as the list of the values the generator yields.
BTree_slice(t, start, end) ==
    IF start # None
    THEN SliceForward(t.heap, search_for_node(t.heap, t.root, start), start, end,
                      Len(t.heap) + 1)
    ELSE IF end # None
    THEN SliceBackward(t.heap, search_for_node(t.heap, t.root, end), end,
                       Len(t.heap) + 1)
    ELSE SliceAll(t.heap, LeftmostLeaf(t.heap, t.root), Len(t.heap) + 1)

(***************************************************************************)
(* The expression layer: column definitions, column references and the     *)
(* comparisons of a WHERE clause.  An operation that can raise returns a    *)
(* record whose field raised names the exception ("" when none is raised).  *)
(***************************************************************************)
TypeError == "TypeError"
IndexError == "IndexError"
ValueError == "ValueError"
ValueNotAvailable == "Value not available"
RowidNotPrimaryKey == "Cannot have non-primary key column named rowid"
MultiplePrimaryKeys == "Multiple Primary keys not supported"
ExistingTable == "Cannot create existing table"
NoSuchTable == "No table named"
WrongRowLength == "Cannot directly insert row with missing or extra columns."
DuplicateKey == "Cannot insert duplicate row with Primary Key"

\* ColumnDefinition(name, type, size, constraints): the name, and whether
\* PRIMARY_KEY is among the constraints.
ColumnDefinition(name, pk) == [name |-> name, pk |-> pk]

\* None in place of a column definition.
NoDef == ColumnDefinition("", FALSE)

\* ColumnReference(table, column, as_name); equality ignores as_name.
ColumnReference(table, column) == [table |-> table, column |-> column]

\* None in place of a row.
NoneRow == <<>>

\* A comparison of a column with an integer literal, or column IN (literals).
Comparison(op, left, value, values) ==
    [op |-> op, left |-> left, value |-> value, values |-> values]

\* None in place of a WHERE clause.
NoWhere == Comparison("", ColumnReference("", ""), None, <<>>)

\* Equals, GreaterThan, GreaterThanEquals, LessThan, LessThanEquals.
Compare(op, l, r) ==
    CASE op = "="  -> l = r
      [] op = ">"  -> l > r
      [] op = ">=" -> l >= r
      [] op = "<"  -> l < r
      [] op = "<=" -> l <= r

\* Context(row, columns).evaluate(reference) for a column reference: the
\* context is dict(zip(columns, row)), so a column beyond the row's length is
\* not available.
Context_evaluate(row, columns, reference) ==
    LET i == IndexOf(columns, reference)
    IN  IF i # 0 /\ i <= Len(row)
        THEN [raised |-> "", value |-> row[i]]
        ELSE [raised |-> ValueNotAvailable, value |-> None]

\* where.evaluate(Context(row, columns)); Context(None, columns) raises
\* TypeError from zip.
Where_evaluate(where, row, columns) ==
    IF row = NoneRow THEN [raised |-> TypeError, value |-> FALSE]
    ELSE LET left == Context_evaluate(row, columns, where.left)
         IN  IF left.raised # "" THEN [raised |-> left.raised, value |-> FALSE]
             ELSE IF where.op = "in"
             THEN [raised |-> "", value |-> left.value \in Range(where.values)]
             ELSE [raised |-> "", value |-> Compare(where.op, left.value, where.value)]

(***************************************************************************)
(* Table (python_sql/database.py).  The rows of a table live in the         *)
(* storage driver's list for the table's name; slots are list positions,    *)
(* counted from 0 as in the code.                                           *)
(***************************************************************************)
\* BTree(): the degree of a table's primary-key index.
DefaultDegree == 4

NoTable ==
    [exists |-> FALSE, name |-> "", column_defs |-> <<>>, pk_def |-> NoDef,
     auto_pk |-> FALSE, pk_index |-> BTree(DefaultDegree)]

RECURSIVE FindPk(_, _, _)
\* The loop of Table.__init__ over the column definitions, from the i-th on.
FindPk(column_defs, i, pk_def) ==
    IF i > Len(column_defs) THEN [raised |-> "", pk_def |-> pk_def]
    ELSE LET cd == column_defs[i]
         IN  IF cd.name = "rowid" /\ ~cd.pk
             THEN [raised |-> RowidNotPrimaryKey, pk_def |-> pk_def]
             ELSE IF cd.pk /\ pk_def # NoDef
             THEN [raised |-> MultiplePrimaryKeys, pk_def |-> pk_def]
             ELSE FindPk(column_defs, i + 1, IF cd.pk THEN cd ELSE pk_def)

\* Table.__init__, up to storage.add_table.
Table_init(name, column_defs) ==
    LET f == FindPk(column_defs, 1, NoDef)
        rowid == ColumnDefinition("rowid", TRUE)
    IN  IF f.raised # "" THEN [raised |-> f.raised, table |-> NoTable]
        ELSE IF f.pk_def = NoDef
        THEN [raised |-> "",
              table |-> [exists |-> TRUE, name |-> name,
                         column_defs |-> <<rowid>> \o column_defs,
                         pk_def |-> rowid, auto_pk |-> TRUE,
                         pk_index |-> BTree(DefaultDegree)]]
        ELSE [raised |-> "",
              table |-> [exists |-> TRUE, name |-> name,
                         column_defs |-> column_defs,
                         pk_def |-> f.pk_def, auto_pk |-> FALSE,
                         pk_index |-> BTree(DefaultDegree)]]

\* Table.primary_key_def
primary_key_def(table) == table.column_defs[1]

\* Table.primary_key_ref
primary_key_ref(table) == ColumnReference(table.name, primary_key_def(table).name)

RECURSIVE column_references_from(_, _)
column_references_from(table, i) ==
    IF i > Len(table.column_defs) THEN <<>>
    ELSE <<ColumnReference(table.name, table.column_defs[i].name)>>
         \o column_references_from(table, i + 1)

\* Table.column_references
column_references(table) == column_references_from(table, 1)

\* What an operation on a table raised, and the table and its rows afterwards.
Stored(raised, table, rows) == [raised |-> raised, table |-> table, rows |-> rows]

\* A row read, or what reading it raised.
Read(raised, row) == [raised |-> raised, row |-> row]

\* Rows read, or what reading them raised.
ReadAll(raised, rows) == [raised |-> raised, rows |-> rows]

\* MemoryStorageDriver.read_row on the table's list of rows.
read_row(rows, slot) ==
    IF slot < Len(rows) THEN Read("", rows[slot + 1]) ELSE Read(IndexError, NoneRow)

\* MemoryStorageDriver.write_row on the table's list of rows.
write_row(table, rows, slot, row_data) ==
    IF slot < Len(rows) THEN Stored("", table, [rows EXCEPT ![slot + 1] = row_data])
    ELSE Stored(IndexError, table, rows)

\* self._pk_index[pk] = len(self._pk_index); self.storage.append_row(row)
append_row(table, rows, row) ==
    Stored("", [table EXCEPT !.pk_index = BTree_setitem(@, row[1], BTree_len(@))],
           Append(rows, row))

\* Table.direct_insert, from the row with its rowid in place.
direct_insert_row(table, rows, row) ==
    IF BTree_contains(table.pk_index, row[1]) THEN Stored(DuplicateKey, table, rows)
    ELSE append_row(table, rows, row)

\* Table.direct_insert: the table and its rows afterwards.
Table_direct_insert(table, rows, row) ==
    IF Len(row) # Len(table.column_defs) /\ ~table.auto_pk
    THEN Stored(WrongRowLength, table, rows)
    ELSE direct_insert_row(table, rows,
             IF table.auto_pk THEN <<BTree_len(table.pk_index)>> \o row ELSE row)

\* Table.insert: write the row at its key's slot, or append it under a new key.
Table_insert(table, rows, row_data) ==
    IF BTree_contains(table.pk_index, row_data[1])
    THEN write_row(table, rows, BTree_getitem(table.pk_index, row_data[1]).value, row_data)
    ELSE append_row(table, rows, row_data)

\* Table.get_row_by_pk, from the slot the index gave.
get_row_data(rows, data_index) ==
    IF data_index = None THEN Read("", NoneRow) ELSE read_row(rows, data_index)

\* Table.get_row_by_pk
get_row_by_pk(table, rows, pk) == get_row_data(rows, BTree_search(table.pk_index, pk))

\* A generator that yields r and then the rows of rest, consumed to its end:
\* the first failing read raises.
chain(r, rest) ==
    IF r.raised # "" THEN ReadAll(r.raised, <<>>)
    ELSE IF rest.raised # "" THEN rest
    ELSE ReadAll("", <<r.row>> \o rest.rows)

RECURSIVE get_rows_data(_, _, _)
\* get_row_data for each slot of a list, from the i-th on.
get_rows_data(rows, slots, i) ==
    IF i > Len(slots) THEN ReadAll("", <<>>)
    ELSE chain(read_row(rows, slots[i]), get_rows_data(rows, slots, i + 1))

\* Table.scan(start, stop), consumed to its end.
Table_scan(table, rows, start, stop) ==
    get_rows_data(rows, BTree_slice(table.pk_index, start, stop), 1)

(***************************************************************************)
(* Database (python_sql/database.py): SELECT.                               *)
(***************************************************************************)
RECURSIVE rows_by_pk(_, _, _, _)
\* (get_row_by_pk(value) for value in values), consumed to its end.
rows_by_pk(table, rows, values, i) ==
    IF i > Len(values) THEN ReadAll("", <<>>)
    ELSE chain(get_row_by_pk(table, rows, values[i]),
               rows_by_pk(table, rows, values, i + 1))

\* The test of Database._get_rows for using the primary-key index: the clause
\* is a comparison and primary_key_ref is among its columns_used().
uses_pk_index(table, where) ==
    where # NoWhere /\ where.left = primary_key_ref(table)

\* itertools.chain(itertools.repeat(row, 1), toRet) when the row of the
\* literal exists, toRet when it does not.
chain_found(row, toRet) ==
    IF row.raised = "" /\ row.row = NoneRow THEN toRet ELSE chain(row, toRet)

\* Database._get_rows, consumed to its end: the rows a SELECT starts from.
Database_get_rows(table, rows, where) ==
    IF uses_pk_index(table, where)
    THEN CASE where.op = "=" ->
                  rows_by_pk(table, rows, <<where.value>>, 1)
           [] where.op = "in" ->
                  rows_by_pk(table, rows, where.values, 1)
           [] where.op \in {">", ">="} ->
                  Table_scan(table, rows, where.value, None)
           [] where.op = "<" ->
                  Table_scan(table, rows, None, where.value)
           [] where.op = "<=" ->
                  chain_found(get_row_by_pk(table, rows, where.value),
                              Table_scan(table, rows, None, where.value))
    ELSE Table_scan(table, rows, None, None)

RECURSIVE to_retain_from(_, _, _)
\* [columns.index(c) for c in select.columns], as positions from 1; 0 where
\* list.index raises ValueError.
to_retain_from(columns, selected, i) ==
    IF i > Len(selected) THEN <<>>
    ELSE <<IndexOf(columns, selected[i])>> \o to_retain_from(columns, selected, i + 1)

RECURSIVE retained(_, _, _)
\* The elements of row whose position is in to_retain, in the row's order.
retained(row, to_retain, i) ==
    IF i > Len(row) THEN <<>>
    ELSE (IF i \in Range(to_retain) THEN <<row[i]>> ELSE <<>>)
         \o retained(row, to_retain, i + 1)

\* Row(data, columns): the values and the names they are displayed under.
Row(values, columns) == [data |-> values, columns |-> columns]

\* Database._filter on one row.
filter_row(where, row, columns) ==
    IF where = NoWhere THEN [raised |-> "", value |-> TRUE]
    ELSE Where_evaluate(where, row, columns)

RECURSIVE filter_and_trim(_, _, _, _, _, _)
\* The loop of Database._trim_to_select over the generator of Database._filter
\* (over the rows as they are when where is None), from the i-th row on.
filter_and_trim(rows, where, columns, to_retain, selected, i) ==
    IF i > Len(rows) THEN ReadAll("", <<>>)
    ELSE LET keep == filter_row(where, rows[i], columns)
             rest == filter_and_trim(rows, where, columns, to_retain, selected, i + 1)
         IN  IF keep.raised # "" THEN ReadAll(keep.raised, <<>>)
             ELSE IF rest.raised # "" THEN rest
             ELSE IF keep.value
             THEN ReadAll("", <<Row(retained(rows[i], to_retain, 1), selected)>>
                              \o rest.rows)
             ELSE rest

\* One round of list(self._filter(rows, where, columns)): the row is kept when
\* the WHERE clause holds for it.
filter_kept(keep, row, rest) ==
    IF keep.raised # "" THEN ReadAll(keep.raised, <<>>)
    ELSE IF rest.raised # "" THEN rest
    ELSE IF keep.value THEN ReadAll("", <<row>> \o rest.rows)
    ELSE rest

RECURSIVE filter_rows(_, _, _, _)
\* list(self._filter(rows, where, columns)), from the i-th row on.
filter_rows(rows, where, columns, i) ==
    IF i > Len(rows) THEN ReadAll("", <<>>)
    ELSE filter_kept(filter_row(where, rows[i], columns), rows[i],
                     filter_rows(rows, where, columns, i + 1))

RECURSIVE create_key(_, _, _)
\* create_key(row): tuple(row[i] for i in indexes), from the i-th index on.
create_key(row, indexes, i) ==
    IF i > Len(indexes) THEN <<>>
    ELSE <<row[indexes[i]]>> \o create_key(row, indexes, i + 1)

RECURSIVE key_less(_, _, _)
\* a < b for two tuples of integers of one length, from position i on.
key_less(a, b, i) ==
    IF i > Len(a) THEN FALSE
    ELSE IF a[i] < b[i] THEN TRUE
    ELSE IF a[i] > b[i] THEN FALSE
    ELSE key_less(a, b, i + 1)

RECURSIVE sort_insert(_, _, _, _)
\* The sorted list with row put before the first element whose key is greater
\* than its own, from position i on.
sort_insert(sorted, row, indexes, i) ==
    IF i > Len(sorted) THEN Append(sorted, row)
    ELSE IF key_less(create_key(row, indexes, 1), create_key(sorted[i], indexes, 1), 1)
    THEN InsertAt(sorted, i, row)
    ELSE sort_insert(sorted, row, indexes, i + 1)

RECURSIVE list_sort(_, _, _, _)
\* rows.sort(key=create_key): a stable sort, the rows from the i-th on put into
\* the sorted list one by one.
list_sort(rows, indexes, i, sorted) ==
    IF i > Len(rows) THEN sorted
    ELSE list_sort(rows, indexes, i + 1, sort_insert(sorted, rows[i], indexes, 1))

\* rows.sort(key=create_key, reverse=reverse): with reverse the list is
\* reversed, sorted and reversed again, so equal keys keep their order.
list_sort_reverse(rows, indexes, reverse) ==
    IF reverse THEN Reverse(list_sort(Reverse(rows), indexes, 1, <<>>))
    ELSE list_sort(rows, indexes, 1, <<>>)

\* Database._sort, from the indexes of the ORDER BY columns (0 where
\* columns.index raises ValueError).
sort_by(rows, indexes, reverse) ==
    IF rows.raised # "" THEN rows
    ELSE IF 0 \in Range(indexes) THEN ReadAll(ValueError, <<>>)
    ELSE IF \E r \in 1..Len(rows.rows) : \E i \in 1..Len(indexes) :
                indexes[i] > Len(rows.rows[r])
    THEN ReadAll(IndexError, <<>>)
    ELSE ReadAll("", list_sort_reverse(rows.rows, indexes, reverse))

\* Database._sort
Database_sort(rows, columns, order_by, reverse) ==
    IF Len(order_by) > 0
    THEN sort_by(rows, to_retain_from(columns, order_by, 1), reverse)
    ELSE rows

\* Database._select with ORDER BY, from the rows sorted: _trim_to_select.
select_sorted(sorted, columns, select) ==
    IF sorted.raised # "" THEN sorted
    ELSE IF 0 \in Range(to_retain_from(columns, select.columns, 1))
    THEN ReadAll(ValueError, <<>>)
    ELSE filter_and_trim(sorted.rows, NoWhere, columns,
                         to_retain_from(columns, select.columns, 1), select.columns, 1)

\* Database._select with ORDER BY, from the rows Database._get_rows gave.
select_ordered(got, columns, select) ==
    select_sorted(Database_sort(filter_rows(got.rows, select.where, columns, 1),
                                columns, select.order_by, select.reverse),
                  columns, select)

\* Database._select on one table, from the rows Database._get_rows gave.
select_from(table, got, select) ==
    LET columns == column_references(table)
        to_retain == to_retain_from(columns, select.columns, 1)
    IN  IF got.raised # "" THEN ReadAll(got.raised, <<>>)
        ELSE IF select.order_by # <<>> THEN select_ordered(got, columns, select)
        ELSE IF 0 \in Range(to_retain) THEN ReadAll(ValueError, <<>>)
        ELSE filter_and_trim(got.rows, select.where, columns, to_retain,
                             select.columns, 1)

\* Database._select on one table.
Database_select(table, rows, select) ==
    select_from(table, Database_get_rows(table, rows, select.where), select)

(***************************************************************************)
(* Database (python_sql/database.py): UPDATE.  The rows of an UPDATE come   *)
(* from generators that run between the writes of the loop.  An item of the *)
(* loop is a row read before the loop ("row"), a key looked up when the     *)
(* loop reaches it ("pk"), a scan of the index over [n, m) that starts when *)
(* the loop reaches it ("scan"), or a slot of a started scan, whose row is  *)
(* read when the loop reaches it ("slot").                                  *)
(***************************************************************************)
Item(kind, n, m, row) == [kind |-> kind, n |-> n, m |-> m, row |-> row]

RECURSIVE slot_items(_, _)
slot_items(slots, i) ==
    IF i > Len(slots) THEN <<>>
    ELSE <<Item("slot", slots[i], None, NoneRow)>> \o slot_items(slots, i + 1)

RECURSIVE pk_items(_, _)
pk_items(values, i) ==
    IF i > Len(values) THEN <<>>
    ELSE <<Item("pk", values[i], None, NoneRow)>> \o pk_items(values, i + 1)

\* The row an item yields when the loop reaches it.
item_row(table, rows, item) ==
    CASE item.kind = "row"  -> Read("", item.row)
      [] item.kind = "slot" -> read_row(rows, item.n)
      [] item.kind = "pk"   -> get_row_by_pk(table, rows, item.n)

RECURSIVE new_row_data(_, _, _, _)
\* The row_data of one updated row: the SET value for a SET column, row[i]
\* for every other column, from the i-th column on.
new_row_data(table, update, row, i) ==
    IF i > Len(table.column_defs) THEN [raised |-> "", data |-> <<>>]
    ELSE LET col_ref == ColumnReference(table.name, table.column_defs[i].name)
             s == IndexOf(update.set_columns, col_ref)
             rest == new_row_data(table, update, row, i + 1)
         IN  IF s = 0 /\ i > Len(row) THEN [raised |-> IndexError, data |-> <<>>]
             ELSE IF rest.raised # "" THEN rest
             ELSE [raised |-> "",
                   data |-> <<IF s # 0 THEN update.set_values[s] ELSE row[i]>>
                            \o rest.data]

\* The outcome of an UPDATE: what it raised, the table and its rows afterwards,
\* the rows updated, and whether a write added a key to the index while a scan
\* of the index was running.
Updated(raised, table, rows, count, grew) ==
    [raised |-> raised, table |-> table, rows |-> rows, count |-> count, grew |-> grew]

RECURSIVE update_loop(_, _, _, _, _, _, _)
RECURSIVE update_row(_, _, _, _, _, _, _, _)
RECURSIVE update_write(_, _, _, _, _, _, _, _)
RECURSIVE update_written(_, _, _, _, _, _, _, _)

\* The loop of Database._update over the items from the i-th on.
update_loop(table, rows, update, items, i, count, grew) ==
    IF i > Len(items) THEN Updated("", table, rows, count, grew)
    ELSE IF items[i].kind = "scan"
    THEN update_loop(table, rows, update,
                     slot_items(BTree_slice(table.pk_index, items[i].n, items[i].m), 1)
                     \o SubSeq(items, i + 1, Len(items)),
                     1, count, grew)
    ELSE update_row(table, rows, update, items, i, count, grew,
                    item_row(table, rows, items[i]))

\* One round of the loop, from the row r the generators gave: the filter.
update_row(table, rows, update, items, i, count, grew, r) ==
    LET keep == filter_row(update.where, r.row, column_references(table))
    IN  IF r.raised # "" THEN Updated(r.raised, table, rows, count, grew)
        ELSE IF keep.raised # "" THEN Updated(keep.raised, table, rows, count, grew)
        ELSE IF ~keep.value
        THEN update_loop(table, rows, update, items, i + 1, count, grew)
        ELSE update_write(table, rows, update, items, i, count, grew,
                          new_row_data(table, update, r.row, 1))

\* One round of the loop, from the row_data built: table.insert(row_data).
update_write(table, rows, update, items, i, count, grew, row_data) ==
    IF row_data.raised # "" THEN Updated(row_data.raised, table, rows, count, grew)
    ELSE update_written(table, rows, update, items, i, count, grew,
                        Table_insert(table, rows, row_data.data))

\* One round of the loop, from the outcome of table.insert: count += 1.
update_written(table, rows, update, items, i, count, grew, ins) ==
    IF ins.raised # "" THEN Updated(ins.raised, table, rows, count, grew)
    ELSE update_loop(ins.table, ins.rows, update, items, i + 1, count + 1,
                     grew \/ (items[i].kind = "slot" /\ ins.table # table))

\* The items of Database._get_rows for the clauses that read no row before
\* the loop.
update_items(table, where) ==
    IF uses_pk_index(table, where) /\ where.op = "in"
    THEN pk_items(where.values, 1)
    ELSE IF uses_pk_index(table, where) /\ where.op \in {">", ">="}
    THEN <<Item("scan", where.value, None, NoneRow)>>
    ELSE IF uses_pk_index(table, where) /\ where.op = "<"
    THEN <<Item("scan", None, where.value, NoneRow)>>
    ELSE <<Item("scan", None, None, NoneRow)>>

\* The items of Database._get_rows for WHERE pk = literal, a list of the row
\* looked up, and for WHERE pk <= literal, the row looked up if it exists and
\* then the scan below the literal.
update_items_from(where, row) ==
    IF where.op = "=" THEN <<Item("row", 0, None, row)>>
    ELSE IF row = NoneRow THEN <<Item("scan", None, where.value, NoneRow)>>
    ELSE <<Item("row", 0, None, row), Item("scan", None, where.value, NoneRow)>>

\* Database._update for the clauses whose row is looked up before the loop.
update_from(table, rows, update, row) ==
    IF row.raised # "" THEN Updated(row.raised, table, rows, 0, FALSE)
    ELSE update_loop(table, rows, update, update_items_from(update.where, row.row),
                     1, 0, FALSE)

\* Database._update on one table.
Database_update(table, rows, update) ==
    IF uses_pk_index(table, update.where) /\ update.where.op \in {"=", "<="}
    THEN update_from(table, rows, update,
                     get_row_by_pk(table, rows, update.where.value))
    ELSE update_loop(table, rows, update, update_items(table, update.where), 1, 0, FALSE)

(***************************************************************************)
(* Database.execute.  tables[db] is the tables dictionary of the db-th      *)
(* Database, both constructed as Database(): the default storage driver is  *)
(* created once, when the class is defined, so both instances hold the same *)
(* MemoryStorageDriver, and data is its _data.  command is the statement    *)
(* executed last and the instance that executed it, result its outcome.     *)
(***************************************************************************)
Dbs == {1, 2}

NoCommand ==
    [db |-> 0, type |-> "", table |-> "", column_defs |-> <<>>, values |-> <<>>,
     columns |-> <<>>, where |-> NoWhere, set_columns |-> <<>>, set_values |-> <<>>,
     order_by |-> <<>>, reverse |-> FALSE]

\* The syntax trees of the four statements.
CreateTable(table, columns) ==
    [NoCommand EXCEPT !.type = "create", !.table = table, !.column_defs = columns]

Insert(table, values) ==
    [NoCommand EXCEPT !.type = "insert", !.table = table, !.values = values]

Select(columns, table, where) ==
    [NoCommand EXCEPT !.type = "select", !.table = table, !.columns = columns,
                      !.where = where]

\* A Select with OrderBy(columns, reverse).
OrderBy(select, columns, reverse) ==
    [select EXCEPT !.order_by = columns, !.reverse = reverse]

Update(table, set_columns, set_values, where) ==
    [NoCommand EXCEPT !.type = "update", !.table = table,
                      !.set_columns = set_columns, !.set_values = set_values,
                      !.where = where]

\* What execute returned (rows of a SELECT, count of an UPDATE) or raised.
NoResult == [raised |-> "", rows |-> <<>>, count |-> None]

\* The state after db1 = Database(); db2 = Database().
DatabaseInit ==
    /\ tables = <<[main |-> NoTable], [main |-> NoTable]>>
    /\ data = [main |-> <<>>]
    /\ command = NoCommand
    /\ result = NoResult

\* execute(CreateTable) without the test for an existing table.
ExecuteCreateTable_unchecked(db, cmd) ==
    LET made == Table_init(cmd.table, cmd.column_defs)
    IN  /\ command' = [cmd EXCEPT !.db = db]
        /\ result' = [NoResult EXCEPT !.raised = made.raised]
        /\ IF made.raised = ""
           THEN /\ tables' = [tables EXCEPT ![db][cmd.table] = made.table]
                /\ data' = [data EXCEPT ![cmd.table] = <<>>]
           ELSE UNCHANGED <<tables, data>>
        /\ UNCHANGED <<tree, last, nrepl>>

\* execute(CreateTable)
ExecuteCreateTable(db, cmd) ==
    LET made == Table_init(cmd.table, cmd.column_defs)
        exc == IF tables[db][cmd.table].exists THEN ExistingTable ELSE made.raised
    IN  /\ command' = [cmd EXCEPT !.db = db]
        /\ result' = [NoResult EXCEPT !.raised = exc]
        /\ IF exc = ""
           THEN /\ tables' = [tables EXCEPT ![db][cmd.table] = made.table]
                /\ data' = [data EXCEPT ![cmd.table] = <<>>]
           ELSE UNCHANGED <<tables, data>>
        /\ UNCHANGED <<tree, last, nrepl>>

\* execute(Insert)
ExecuteInsert(db, cmd) ==
    LET table == tables[db][cmd.table]
    IN  /\ command' = [cmd EXCEPT !.db = db]
        /\ IF ~table.exists
           THEN /\ result' = [NoResult EXCEPT !.raised = NoSuchTable]
                /\ UNCHANGED <<tables, data>>
           ELSE \E done \in {Table_direct_insert(table, data[cmd.table], cmd.values)} :
                /\ result' = [NoResult EXCEPT !.raised = done.raised]
                /\ tables' = [tables EXCEPT ![db][cmd.table] = done.table]
                /\ data' = [data EXCEPT ![cmd.table] = done.rows]
        /\ UNCHANGED <<tree, last, nrepl>>

\* execute(Select)
ExecuteSelect(db, cmd) ==
    LET table == tables[db][cmd.table]
    IN  /\ command' = [cmd EXCEPT !.db = db]
        /\ IF ~table.exists
           THEN result' = [NoResult EXCEPT !.raised = NoSuchTable]
           ELSE \E out \in {Database_select(table, data[cmd.table], cmd)} :
                result' = [NoResult EXCEPT !.raised = out.raised, !.rows = out.rows]
        /\ UNCHANGED <<tables, data, tree, last, nrepl>>

\* execute(Update).  Not taken when a write adds a key to the index under a
\* running scan of the index: every other UPDATE is followed exactly.
ExecuteUpdate(db, cmd) ==
    LET table == tables[db][cmd.table]
    IN  /\ command' = [cmd EXCEPT !.db = db]
        /\ IF ~table.exists
           THEN /\ result' = [NoResult EXCEPT !.raised = NoSuchTable]
                /\ UNCHANGED <<tables, data>>
           ELSE \E out \in {Database_update(table, data[cmd.table], cmd)} :
                /\ ~out.grew
                /\ result' = [NoResult EXCEPT !.raised = out.raised,
                                              !.count = IF out.raised = ""
                                                        THEN out.count ELSE None]
                /\ tables' = [tables EXCEPT ![db][cmd.table] = out.table]
                /\ data' = [data EXCEPT ![cmd.table] = out.rows]
        /\ UNCHANGED <<tree, last, nrepl>>

(***************************************************************************)
(* The B+-tree on its own: a tree of any degree in Degrees, and any        *)
(* sequence of tree[key] = value.  last[key] is the value last stored for  *)
(* key (None: never stored), nrepl the number of stores to a key that was  *)
(* already present.                                                        *)
(***************************************************************************)
\* The value stored by the n-th store (n = 0, 1, ...) to key: values are opaque
\* to the tree, and these are distinct for distinct keys and distinct stores.
Stamp(key, n) == key + n * MaxKey

\* How many times key has been stored, from the value last stored for it.
Stores(key) == IF last[key] = None THEN 0 ELSE (last[key] - key) \div MaxKey + 1

TreeInit ==
    /\ \E d \in Degrees : tree = BTree(d)
    /\ last = [k \in Keys |-> None]
    /\ nrepl = 0
    /\ DatabaseInit

\* tree[key] = value, for a key not stored before.
SetNew(key) ==
    /\ last[key] = None
    /\ tree' = BTree_setitem(tree, key, Stamp(key, 0))
    /\ last' = [last EXCEPT ![key] = Stamp(key, 0)]
    /\ nrepl' = nrepl
    /\ UNCHANGED <<tables, data, command, result>>

\* tree[key] = value, for a key stored before.
SetAgain(key) ==
    /\ last[key] # None
    /\ nrepl < MaxRepl
    /\ tree' = BTree_setitem(tree, key, Stamp(key, Stores(key)))
    /\ last' = [last EXCEPT ![key] = Stamp(key, Stores(key))]
    /\ nrepl' = nrepl + 1
    /\ UNCHANGED <<tables, data, command, result>>

TreeNext == \E key \in Keys : SetNew(key) \/ SetAgain(key)

SpecTree == TreeInit /\ [][TreeNext]_vars

\* The keys stored so far, and the same in ascending order.
StoredKeys == {k \in Keys : last[k] # None}

RECURSIVE Ascending(_)
\* sorted(S) for a finite set of integers.
Ascending(S) ==
    IF S = {} THEN <<>>
    ELSE LET m == CHOOSE x \in S : \A y \in S : x <= y
         IN  <<m>> \o Ascending(S \ {m})

\* The height of the tree: 1 for a root leaf.
RECURSIVE Height(_, _)
Height(h, id) == IF h[id].leaf THEN 1 ELSE 1 + Height(h, h[id].children[1])

(***************************************************************************)
(* Claims about the B+-tree.                                               *)
(***************************************************************************)
\* C1: after inserts of distinct keys in any order, forward iteration yields
\* every inserted key exactly once in strictly ascending order, and reverse
\* iteration yields every inserted key exactly once in strictly descending order.
C1_IterationOrdered ==
    nrepl = 0 =>
        /\ BTree_iter(tree) = Ascending(StoredKeys)
        /\ BTree_reversed(tree) = Reverse(Ascending(StoredKeys))

\* C2: after any sequence of inserts and replacements, len(tree) is the number
\* of distinct keys inserted.
C2_LenCountsKeys == BTree_len(tree) = Cardinality(StoredKeys)

\* The keys a lookup is tried with: every key of the model and one below, one above.
Probes == 0..(MaxKey + 1)

\* C3: a point lookup of k returns the value most recently inserted for k, and
\* a lookup of a key never inserted signals not-found: KeyError from get, None
\* from search, False from contains.
C3_LookupLatest ==
    \A k \in Probes :
        IF k \in StoredKeys
        THEN /\ BTree_getitem(tree, k) = [found |-> TRUE, value |-> last[k]]
             /\ BTree_search(tree, k) = last[k]
             /\ BTree_contains(tree, k)
        ELSE /\ ~BTree_getitem(tree, k).found
             /\ BTree_search(tree, k) = None
             /\ ~BTree_contains(tree, k)

\* A tree of height 3 in which one key was replaced and one key is missing.
C3_Witness ==
    /\ Height(tree.heap, tree.root) >= 3
    /\ \E k \in StoredKeys : Stores(k) = 2
    /\ StoredKeys # Keys

\* The bounds a range is tried with; None omits the bound.
Bounds == {None} \cup Probes

\* The values of the stored keys in [a, b).
ValuesInRange(a, b) ==
    {last[k] : k \in {x \in StoredKeys : (a = None \/ a <= x) /\ (b = None \/ x < b)}}

\* C4: for every half-open range [a, b), either bound optional, the range
\* iterator yields the value of every key in the range exactly once and no
\* value of a key outside it.
C4_RangeExact ==
    \A a \in Bounds, b \in Bounds :
        /\ Range(BTree_slice(tree, a, b)) = ValuesInRange(a, b)
        /\ Len(BTree_slice(tree, a, b)) = Cardinality(ValuesInRange(a, b))

(***************************************************************************)
(* One Database creating, loading and querying table main.  Values are     *)
(* drawn from 1..MaxVal, literals in WHERE from one further, and a table is *)
(* loaded with at most MaxRows rows.                                        *)
(***************************************************************************)
MaxVal == 2
MaxRows == 2

Vals == 1..MaxVal
Literals == 1..(MaxVal + 1)

PkFirst == <<ColumnDefinition("id", TRUE), ColumnDefinition("cola", FALSE)>>
PkSecond == <<ColumnDefinition("cola", FALSE), ColumnDefinition("id", TRUE)>>
NoPk == <<ColumnDefinition("id", FALSE), ColumnDefinition("cola", FALSE)>>

\* CREATE TABLE main(id int primary key, cola int), main(cola int, id int
\* primary key), main(id int, cola int), main(id int primary key, cola int
\* primary key), main(rowid int, cola int).
Schemas ==
    {PkFirst, PkSecond, NoPk,
     <<ColumnDefinition("id", TRUE), ColumnDefinition("cola", TRUE)>>,
     <<ColumnDefinition("rowid", FALSE), ColumnDefinition("cola", FALSE)>>}

\* INSERT INTO main VALUES(a, b), and VALUES(1).
InsertValues == {<<a, b>> : a \in Vals, b \in Vals} \cup {<<1>>}

main_id == ColumnReference("main", "id")
main_cola == ColumnReference("main", "cola")

ColumnLists == {<<main_id, main_cola>>, <<main_cola, main_id>>, <<main_id>>}

\* IN (a) and IN (1, b).
InLists == {<<a>> : a \in Literals} \cup {<<1, b>> : b \in Literals}

\* column op literal and column IN (literals), for the columns in cols.
Comparisons(ops, cols, lits, lists) ==
    {Comparison(op, c, v, <<>>) : op \in ops, c \in cols, v \in lits}
    \cup {Comparison("in", c, None, vs) : c \in cols, vs \in lists}

Wheres ==
    {NoWhere} \cup Comparisons({"=", ">", ">=", "<", "<="}, {main_id, main_cola},
                               Literals, InLists)

\* SELECT main.id, main.cola FROM main [WHERE main.id < literal] ORDER BY
\* columns [DESC].
OrderedSelects ==
    {OrderBy(Select(<<main_id, main_cola>>, "main", w), by, reverse) :
        w \in {NoWhere, Comparison("<", main_id, MaxVal + 1, <<>>)},
        by \in {<<main_cola>>, <<main_cola, main_id>>},
        reverse \in BOOLEAN}

\* SELECT main.id, main.cola FROM main [WHERE w], SELECT list FROM main, and
\* the SELECTs with ORDER BY.
Selects ==
    {Select(<<main_id, main_cola>>, "main", w) : w \in Wheres}
    \cup {Select(list, "main", NoWhere) : list \in ColumnLists}
    \cup OrderedSelects

\* The B+-tree of SpecTree, unused here.
TreeIdle ==
    /\ tree = BTree(DefaultDegree)
    /\ last = [k \in Keys |-> None]
    /\ nrepl = 0

DbInit == DatabaseInit /\ TreeIdle

DbCreateTable == \E s \in Schemas : ExecuteCreateTable(1, CreateTable("main", s))

DbInsert ==
    \E v \in InsertValues :
        /\ Len(data["main"]) < MaxRows
        /\ ExecuteInsert(1, Insert("main", v))

DbSelect == \E s \in Selects : ExecuteSelect(1, s)

DbNext == DbCreateTable \/ DbInsert \/ DbSelect

SpecDB == DbInit /\ [][DbNext]_vars

(***************************************************************************)
(* One Database whose table is loaded in ascending key order, as in         *)
(* tests/test_large_db.py, with the keys LoadStep, 2 * LoadStep, ... up to   *)
(* LoadRows rows, and then takes up to MaxFree further rows with keys        *)
(* between the loaded ones, and UPDATEs.                                     *)
(***************************************************************************)
LoadRows == 10
LoadStep == 2
MaxFree == 3

\* The keys of the further rows: the smallest key, and keys next to the
\* middle of the loaded ones.
FreeKeys == {1} \cup {k \in LoadRows..(LoadRows + 2 * LoadStep) : k % LoadStep # 0}

\* UPDATE main SET cola = 2 [WHERE main.id op k], UPDATE main SET id = k
\* WHERE main.id = LoadStep.
Updates ==
    {Update("main", <<main_cola>>, <<2>>, w) :
        w \in {NoWhere} \cup Comparisons({"=", ">", "<="}, {main_id},
                                         {LoadStep, LoadStep * LoadRows},
                                         {<<1, LoadStep>>})}
    \cup {Update("main", <<main_id>>, <<k>>, Comparison("=", main_id, LoadStep, <<>>)) :
            k \in {1, LoadStep}}

LoadCreateTable == ExecuteCreateTable(1, CreateTable("main", PkFirst))

LoadNext ==
    /\ Len(data["main"]) < LoadRows
    /\ ExecuteInsert(1, Insert("main", <<LoadStep * (Len(data["main"]) + 1), 1>>))

LoadFree ==
    \E k \in FreeKeys :
        /\ Len(data["main"]) >= LoadRows
        /\ Len(data["main"]) < LoadRows + MaxFree
        /\ ExecuteInsert(1, Insert("main", <<k, 1>>))

LoadUpdate ==
    \E u \in Updates :
        /\ Len(data["main"]) >= LoadRows
        /\ ExecuteUpdate(1, u)

LoadStatement == LoadCreateTable \/ LoadNext \/ LoadFree \/ LoadUpdate

SpecLoad == DbInit /\ [][LoadStatement]_vars

(***************************************************************************)
(* Two Databases, both made by Database(), executing statements in any      *)
(* interleaving.                                                            *)
(***************************************************************************)
TwoCreateTable ==
    \E db \in Dbs, s \in {PkFirst, NoPk} : ExecuteCreateTable(db, CreateTable("main", s))

TwoInsert ==
    \E db \in Dbs, v \in {<<a, b>> : a \in Vals, b \in Vals} :
        /\ Len(data["main"]) < MaxRows
        /\ ExecuteInsert(db, Insert("main", v))

TwoSelect ==
    \E db \in Dbs, w \in {NoWhere, Comparison("=", main_id, 1, <<>>)} :
        ExecuteSelect(db, Select(<<main_id, main_cola>>, "main", w))

TwoUpdate ==
    \E db \in Dbs, v \in Vals :
        ExecuteUpdate(db, Update("main", <<main_cola>>, <<v>>, NoWhere))

TwoNext == TwoCreateTable \/ TwoInsert \/ TwoSelect \/ TwoUpdate

SpecTwo == DbInit /\ [][TwoNext]_vars

(***************************************************************************)
(* Claims about tables and statements.                                      *)
(***************************************************************************)
RECURSIVE TreeKeys(_, _)
\* The keys in the leaves under node id, found through children only.
TreeKeys(h, id) ==
    IF h[id].leaf THEN Range(h[id].keys)
    ELSE UNION {TreeKeys(h, c) : c \in Range(h[id].children)}

\* The keys of a table's primary-key index.
IndexKeys(table) == TreeKeys(table.pk_index.heap, table.pk_index.root)

\* C5: after any sequence of accepted INSERT and UPDATE statements on a table,
\* every primary-key value in the table's index maps to a slot that exists in
\* the row store and whose row has that key as its first component.
C5_IndexMatchesStore ==
    \A db \in Dbs :
        tables[db]["main"].exists =>
            \A k \in IndexKeys(tables[db]["main"]) :
                LET slot == BTree_search(tables[db]["main"].pk_index, k)
                IN  /\ slot # None
                    /\ slot < Len(data["main"])
                    /\ data["main"][slot + 1][1] = k

\* The table the last statement was executed on.
CommandTable == tables[command.db][command.table]

\* The reference to the column a table declares as its primary key.
pk_def_ref(table) == ColumnReference(table.name, table.pk_def.name)

\* SELECT by a full scan of the table: the last line of Database._get_rows,
\* followed by the filter and the trim of Database._select.
FullScanSelect(table, rows, select) ==
    select_from(table, Table_scan(table, rows, None, None), select)

\* How often x occurs in the list s.
Count(s, x) == Cardinality({i \in 1..Len(s) : s[i] = x})

\* Two lists hold the same rows the same number of times, in any order.
SameRows(a, b) ==
    /\ Len(a) = Len(b)
    /\ \A x \in Range(a) \cup Range(b) : Count(a, x) = Count(b, x)

\* C6: for a WHERE clause that is a single comparison on the main table's
\* primary key (=, IN, >, >=, <, <=), literals that match no row and repeated
\* literals of IN included, SELECT returns the same rows as evaluating the
\* clause over a full scan of the table.
C6_PushdownEqualsScan ==
    (/\ command.type = "select"
     /\ CommandTable.exists
     /\ command.where # NoWhere
     /\ command.where.left = pk_def_ref(CommandTable))
    => /\ result.raised = FullScanSelect(CommandTable, data["main"], command).raised
       /\ SameRows(result.rows, FullScanSelect(CommandTable, data["main"], command).rows)

\* The rows a SELECT keeps, whole: the same SELECT with every column of the
\* table in its list, in the table's order.
KeptRows(table, rows, select) ==
    Database_select(table, rows, [select EXCEPT !.columns = column_references(table)]).rows

\* Every row of the table's store has a value for every column.
FullRows(table, rows) == \A i \in 1..Len(rows) : Len(rows[i]) = Len(table.column_defs)

\* C7: for any SELECT column list, in any order relative to the table's column
\* order, every result Row carries exactly the values of the selected columns
\* in the order of the SELECT list: position i of the row and the i-th display
\* name refer to the same column.
C7_SelectListOrder ==
    (/\ command.type = "select"
     /\ CommandTable.exists
     /\ result.raised = ""
     /\ FullRows(CommandTable, data["main"]))
    => \A j \in 1..Len(result.rows) :
          /\ Len(result.rows[j].data) = Len(result.rows[j].columns)
          /\ \A i \in 1..Len(result.rows[j].columns) :
                result.rows[j].data[i] =
                    KeptRows(CommandTable, data["main"], command)[j].data[
                        IndexOf(column_references(CommandTable), result.rows[j].columns[i])]

\* C8: after every successful CREATE TABLE the table's primary-key column (the
\* column declared PRIMARY KEY, wherever it was declared, or else the rowid) is
\* at position 0 of the column list, so that the column of the index key and
\* of WHERE pushdown (primary_key_def) and the column of index joins (pk_def)
\* are the same column.
C8_PrimaryKeyFirst ==
    \A db \in Dbs :
        tables[db]["main"].exists =>
            primary_key_def(tables[db]["main"]) = tables[db]["main"].pk_def

\* The table, index and rows observed through one Database.
Observed(db) ==
    [table |-> tables[db]["main"],
     rows |-> IF tables[db]["main"].exists THEN data["main"] ELSE <<>>]

\* C9: for two Databases made with default arguments and any interleaving of
\* statements, the rows, index and store observed through one instance are
\* changed only by statements executed on that instance.
C9_InstancesIsolated ==
    [][\A db \in Dbs : command'.db # db => Observed(db)' = Observed(db)]_vars

\* The position, from 1, of the column a table declares as its primary key.
PkPosition(table) == IndexOf(table.column_defs, table.pk_def)

\* The primary-key values of the rows of a table.
PkValues(table, rows) == {rows[i][PkPosition(table)] : i \in 1..Len(rows)}

\* C10: an INSERT into a table with a declared primary key whose key value is
\* already in the table fails with the duplicate-key error and leaves index and
\* rows unchanged; an INSERT with a new key appends exactly one row and adds
\* exactly that key to the index.
C10_InsertChecksKey ==
    [][\A db \in Dbs :
        (/\ command'.type = "insert"
         /\ command'.db = db
         /\ tables[db]["main"].exists
         /\ ~tables[db]["main"].auto_pk
         /\ Len(command'.values) = Len(tables[db]["main"].column_defs))
        => IF command'.values[PkPosition(tables[db]["main"])]
                  \in PkValues(tables[db]["main"], data["main"])
           THEN /\ result'.raised = DuplicateKey
                /\ tables' = tables
                /\ data' = data
           ELSE /\ result'.raised = ""
                /\ data'["main"] = Append(data["main"], command'.values)
                /\ IndexKeys(tables'[db]["main"]) =
                       IndexKeys(tables[db]["main"])
                       \cup {command'.values[PkPosition(tables[db]["main"])]}
      ]_vars

(***************************************************************************)
(* Table.scan.                                                             *)
(***************************************************************************)
\* The bounds a scan is tried with; None omits the bound.
ScanBounds == {None} \cup (0..(MaxVal + 1))

RECURSIVE RowsInRange(_, _, _, _, _)
\* The stored rows whose primary key lies in [start, stop), by ascending key,
\* from key k on.
RowsInRange(table, rows, start, stop, k) ==
    IF k > MaxVal + 1 THEN <<>>
    ELSE (IF (start = None \/ start <= k) /\ (stop = None \/ k < stop)
          THEN SelectSeq(rows, LAMBDA r : r[PkPosition(table)] = k)
          ELSE <<>>)
         \o RowsInRange(table, rows, start, stop, k + 1)

\* C11: for every combination of bounds (both, only start, only stop,
\* neither), Table.scan(start, stop) yields the rows whose primary key lies in
\* [start, stop), in ascending primary-key order.
C11_ScanAscending ==
    \A start \in ScanBounds, stop \in ScanBounds :
        tables[1]["main"].exists =>
            Table_scan(tables[1]["main"], data["main"], start, stop)
                = ReadAll("", RowsInRange(tables[1]["main"], data["main"], start, stop, 0))

(***************************************************************************)
(* UPDATE.                                                                 *)
(***************************************************************************)
\* Whether a stored row satisfies the WHERE clause of a statement.
Satisfies(table, where, row) ==
    where = NoWhere \/ Where_evaluate(where, row, column_references(table)).value

RECURSIVE SetRow(_, _, _, _)
\* The row with every SET column replaced by its SET value, from the i-th
\* column on.
SetRow(table, update, row, i) ==
    IF i > Len(row) THEN <<>>
    ELSE <<IF column_references(table)[i] \in Range(update.set_columns)
           THEN update.set_values[IndexOf(update.set_columns, column_references(table)[i])]
           ELSE row[i]>>
         \o SetRow(table, update, row, i + 1)

RECURSIVE SetRows(_, _, _, _)
\* The rows after an UPDATE, from the i-th row on.
SetRows(table, update, rows, i) ==
    IF i > Len(rows) THEN <<>>
    ELSE <<IF Satisfies(table, update.where, rows[i])
           THEN SetRow(table, update, rows[i], 1) ELSE rows[i]>>
         \o SetRows(table, update, rows, i + 1)

\* C12: UPDATE returns the number of rows that satisfy the WHERE clause (all
\* rows when there is none); afterwards each of those rows holds the SET value
\* in every SET column, and every other column and every other row is
\* unchanged.
C12_UpdateRows ==
    [][(command'.type = "update" /\ tables[command'.db]["main"].exists)
       => /\ result'.raised = ""
          /\ result'.count =
                 Len(SelectSeq(data["main"],
                         LAMBDA r : Satisfies(tables[command'.db]["main"], command'.where, r)))
          /\ data'["main"] = SetRows(tables[command'.db]["main"], command', data["main"], 1)]_vars

(***************************************************************************)
(* CREATE TABLE that must be rejected.                                     *)
(***************************************************************************)
\* The number of columns declared PRIMARY KEY.
DeclaredKeys(column_defs) ==
    Cardinality({i \in 1..Len(column_defs) : column_defs[i].pk})

\* A column named rowid is declared without PRIMARY KEY.
PlainRowid(column_defs) ==
    \E i \in 1..Len(column_defs) : column_defs[i].name = "rowid" /\ ~column_defs[i].pk

\* C19: a CREATE TABLE that names an existing table, declares more than one
\* PRIMARY KEY column, or declares a column named rowid without PRIMARY KEY
\* is rejected with an error, and the tables, their rows and their indexes are
\* unchanged.
C19_CreateRejected ==
    [][(/\ command'.type = "create"
        /\ \/ tables[command'.db][command'.table].exists
           \/ DeclaredKeys(command'.column_defs) > 1
           \/ PlainRowid(command'.column_defs))
       => /\ result'.raised # ""
          /\ tables' = tables
          /\ data' = data]_vars

\* A CREATE TABLE main was rejected while main held rows.
C19_Witness ==
    /\ command.type = "create"
    /\ result.raised = ExistingTable
    /\ Len(data["main"]) > 0

\* C20: after any sequence of accepted INSERT and UPDATE statements, every
\* row in a table's store has exactly as many values as the table has columns
\* (the synthetic rowid included), for INSERT value lists of any length.
C20_RowLength ==
    tables[1]["main"].exists =>
        \A i \in 1..Len(data["main"]) :
            Len(data["main"][i]) = Len(tables[1]["main"].column_defs)

(***************************************************************************)
(* SELECT with ORDER BY.                                                   *)
(***************************************************************************)
\* The rows a SELECT sorts, in the order it sorts them from: the rows of the
\* same SELECT without ORDER BY, every column kept.
PreSort(table, rows, select) ==
    select_from(table, Database_get_rows(table, rows, select.where),
                [select EXCEPT !.order_by = <<>>, !.columns = column_references(table)])

\* The value of the i-th ORDER BY column in a row.
SortValue(table, select, row, i) ==
    row[IndexOf(column_references(table), select.order_by[i])]

\* The sort key of row a is less than that of row b.
SortsBefore(table, select, a, b) ==
    \E i \in 1..Len(select.order_by) :
        /\ SortValue(table, select, a, i) < SortValue(table, select, b, i)
        /\ \A j \in 1..(i - 1) :
               SortValue(table, select, a, j) = SortValue(table, select, b, j)

\* post is pre in the order p, trimmed to the SELECT list: ordered by the sort
\* key, ascending or with reverse descending, rows of equal keys in the order
\* they have in pre.
StableOrder(table, select, pre, post, p) ==
    /\ \A k \in 1..Len(pre) :
           post[k] = Row(retained(pre[p[k]].data,
                                  to_retain_from(column_references(table), select.columns, 1), 1),
                         select.columns)
    /\ \A j \in 1..Len(pre), k \in 1..Len(pre) :
           j < k =>
               /\ IF select.reverse
                  THEN ~SortsBefore(table, select, pre[p[j]].data, pre[p[k]].data)
                  ELSE ~SortsBefore(table, select, pre[p[k]].data, pre[p[j]].data)
               /\ (/\ ~SortsBefore(table, select, pre[p[j]].data, pre[p[k]].data)
                   /\ ~SortsBefore(table, select, pre[p[k]].data, pre[p[j]].data))
                  => p[j] < p[k]

\* The result of a SELECT with ORDER BY is the stable ordering of the rows pre.
StablySorted(table, select, pre, out) ==
    /\ out.raised = ""
    /\ Len(out.rows) = Len(pre)
    /\ \E p \in Permutations(1..Len(pre)) : StableOrder(table, select, pre, out.rows, p)

\* C14: a SELECT with ORDER BY c1..ck returns the filtered rows ordered by the
\* tuple of those columns' values, ascending by default and descending with
\* DESC, rows of equal sort keys in their order before the sort.
C14_OrderByStable ==
    (/\ command.type = "select"
     /\ command.order_by # <<>>
     /\ CommandTable.exists
     /\ PreSort(CommandTable, data["main"], command).raised = "")
    => StablySorted(CommandTable, command,
                    PreSort(CommandTable, data["main"], command).rows, result)


\* ---------------------------------------------------------------------
\* WHERE expression trees (logic/__init__.py).  A node is a record whose
\* kind field is the name of its Python class; a column reference is the
\* record ColumnReference builds, which has no kind field.  The class
\* objects TrueOp and FalseOp, which the comparisons return in place of
\* instances, are nodes of kind "type".
\* ---------------------------------------------------------------------

\* type(e).__name__
type_of(e) == IF "kind" \in DOMAIN e THEN e.kind ELSE "ColumnReference"

\* IntegerLiteral(value)
IntegerLiteral(value) == [kind |-> "IntegerLiteral", value |-> value]

\* StringLiteral(value); the str is kept in a field of its own, so that no
\* field holds an int in one node and a str in another
StringLiteral(value) == [kind |-> "StringLiteral", string |-> value]

\* TrueOp(), FalseOp()
TrueOp == [kind |-> "TrueOp"]
FalseOp == [kind |-> "FalseOp"]

\* the class object cls itself, not an instance of it
ClassObject(cls) == [kind |-> "type", name |-> cls]

\* Equals, NotEquals, GreaterThan, GreaterThanEquals, LessThan,
\* LessThanEquals, And, Or (left, right)
Operation(cls, left, right) == [kind |-> cls, left |-> left, right |-> right]

Not(operation) == [kind |-> "Not", operation |-> operation]

InFunc(left, values) == [kind |-> "InFunc", left |-> left, values |-> values]

\* issubclass(type(e), Literal)
is_literal(e) ==
    type_of(e) \in {"IntegerLiteral", "StringLiteral", "TrueOp", "FalseOp"}

\* ColumnReference.__eq__: table and column, as_name ignored; any other
\* pair of operands is compared by identity, and the parser never uses one
\* object twice
same_reference(a, b) ==
    /\ type_of(a) = "ColumnReference"
    /\ type_of(b) = "ColumnReference"
    /\ a.table = b.table
    /\ a.column = b.column

\* the printable ASCII characters in code order: codes 32..95 and 97..126
\* (code 96 cannot be written in a string here)
AsciiLow == " !\"#$%&'()*+,-./0123456789:;<=>?@ABCDEFGHIJKLMNOPQRSTUVWXYZ[\\]^_"
AsciiHigh == "abcdefghijklmnopqrstuvwxyz{|}~"

\* ord(c)
ord(c) ==
    IF \E k \in 1..Len(AsciiLow) : SubSeq(AsciiLow, k, k) = c
    THEN 31 + CHOOSE k \in 1..Len(AsciiLow) : SubSeq(AsciiLow, k, k) = c
    ELSE 96 + CHOOSE k \in 1..Len(AsciiHigh) : SubSeq(AsciiHigh, k, k) = c

\* a < b on str values: by the first character that differs
RECURSIVE str_less(_, _)
str_less(a, b) ==
    IF b = "" THEN FALSE
    ELSE IF a = "" THEN TRUE
    ELSE IF Head(a) = Head(b) THEN str_less(Tail(a), Tail(b))
    ELSE ord(Head(a)) < ord(Head(b))

\* left.value <op> right.value of two literals: [raised, value]
literal_compare(cls, l, r) ==
    IF type_of(l) = type_of(r)
    THEN LET lt == IF type_of(l) = "IntegerLiteral" THEN l.value < r.value
                   ELSE str_less(l.string, r.string)
             eq == l = r
         IN [raised |-> "",
             value |-> CASE cls = "Equals" -> eq
                         [] cls = "NotEquals" -> ~eq
                         [] cls = "GreaterThan" -> ~lt /\ ~eq
                         [] cls = "GreaterThanEquals" -> ~lt
                         [] cls = "LessThan" -> lt
                         [] cls = "LessThanEquals" -> lt \/ eq]
    ELSE IF cls \in {"Equals", "NotEquals"}
         THEN [raised |-> "", value |-> cls = "NotEquals"]
         ELSE [raised |-> TypeError, value |-> FALSE]

\* what simplify() gives: the exception raised, or the node returned
Simplified(raised, expr) == [raised |-> raised, expr |-> expr]

\* Equals.simplify .. LessThanEquals.simplify, on the simplified operands
comparison_simplify(cls, l, r) ==
    IF l.raised # "" THEN l
    ELSE IF r.raised # "" THEN r
    ELSE IF is_literal(l.expr) /\ is_literal(r.expr)
         THEN LET c == literal_compare(cls, l.expr, r.expr)
              IN IF c.raised # "" THEN Simplified(c.raised, l.expr)
                 ELSE Simplified("", ClassObject(IF c.value THEN "TrueOp"
                                                 ELSE "FalseOp"))
    ELSE IF cls # "NotEquals" /\ is_literal(l.expr)
         THEN Simplified("", Operation(cls, r.expr, l.expr))
         ELSE Simplified("", Operation(cls, l.expr, r.expr))

And_simplify(l, r) ==
    IF l.raised # "" THEN l
    ELSE IF r.raised # "" THEN r
    ELSE IF type_of(l.expr) = "FalseOp" \/ type_of(r.expr) = "FalseOp"
         THEN Simplified("", FalseOp)
    ELSE IF type_of(l.expr) = "TrueOp" /\ type_of(r.expr) = "TrueOp"
         THEN Simplified("", TrueOp)
         ELSE Simplified("", Operation("And", l.expr, r.expr))

collect_values(op) == IF type_of(op) = "Equals" THEN <<op.right>> ELSE op.values

Or_simplify(l, r) ==
    IF l.raised # "" THEN l
    ELSE IF r.raised # "" THEN r
    ELSE IF type_of(l.expr) = "FalseOp" /\ type_of(r.expr) = "FalseOp"
         THEN Simplified("", FalseOp)
    ELSE IF type_of(l.expr) = "TrueOp" \/ type_of(r.expr) = "TrueOp"
         THEN Simplified("", TrueOp)
    ELSE IF /\ type_of(l.expr) \in {"Equals", "InFunc"}
            /\ type_of(r.expr) \in {"Equals", "InFunc"}
            /\ same_reference(l.expr.left, r.expr.left)
         THEN Simplified("", InFunc(l.expr.left,
                                    collect_values(l.expr) \o collect_values(r.expr)))
         ELSE Simplified("", Operation("Or", l.expr, r.expr))

Not_simplify(o) ==
    IF o.raised # "" THEN o
    ELSE IF type_of(o.expr) = "TrueOp"
         THEN Simplified("", FalseOp)
    ELSE IF type_of(o.expr) = "FalseOp"
         THEN Simplified("", TrueOp)
    ELSE IF type_of(o.expr) = "Equals"
         THEN Simplified("", Operation("NotEquals", o.expr.left, o.expr.right))
    ELSE IF type_of(o.expr) = "NotEquals"
         THEN Simplified("", Operation("Equals", o.expr.left, o.expr.right))
         ELSE Simplified("", Not(o.expr))

\* e.simplify(); called on a class object it has no self to work on
RECURSIVE simplify(_)
simplify(e) ==
    CASE type_of(e) = "type" -> Simplified(TypeError, e)
      [] type_of(e) = "And" -> And_simplify(simplify(e.left), simplify(e.right))
      [] type_of(e) = "Or" -> Or_simplify(simplify(e.left), simplify(e.right))
      [] type_of(e) = "Not" -> Not_simplify(simplify(e.operation))
      [] type_of(e) \in {"InFunc", "ColumnReference"} -> Simplified("", e)
      [] is_literal(e) -> Simplified("", e)
      [] OTHER -> comparison_simplify(type_of(e), simplify(e.left),
                                      simplify(e.right))

\* Context(row, columns).evaluate(reference): the value of a column of the
\* row (rows hold integers), or of a literal, as a literal node
context_evaluate(reference, row, columns) ==
    IF \E i \in 1..Len(row) : i <= Len(columns) /\ same_reference(columns[i], reference)
    THEN [raised |-> "",
          value |-> IntegerLiteral(
                        row[CHOOSE i \in 1..Len(row) :
                                /\ i <= Len(columns)
                                /\ same_reference(columns[i], reference)
                                /\ \A j \in (i + 1)..Len(row) :
                                       j <= Len(columns)
                                       => ~same_reference(columns[j], reference)])]
    ELSE IF is_literal(reference) THEN [raised |-> "", value |-> reference]
         ELSE [raised |-> ValueNotAvailable, value |-> reference]

\* e.evaluate(Context(row, columns)): [raised, value].  and/or evaluate
\* their right side only when the left one does not decide, IN looks at its
\* values up to the first equal one, and a class object has no self to
\* evaluate.
RECURSIVE evaluate(_, _, _)
evaluate(e, row, columns) ==
    LET l == IF type_of(e) \in {"And", "Or"} THEN evaluate(e.left, row, columns)
             ELSE context_evaluate(e.left, row, columns)
        r == IF type_of(e) \in {"And", "Or"} THEN evaluate(e.right, row, columns)
             ELSE context_evaluate(e.right, row, columns)
        o == evaluate(e.operation, row, columns)
        vs == [i \in 1..Len(e.values) |-> context_evaluate(e.values[i], row, columns)]
    IN  CASE type_of(e) = "type" -> [raised |-> TypeError, value |-> FALSE]
          [] type_of(e) \in {"TrueOp", "FalseOp"} ->
                [raised |-> "", value |-> type_of(e) = "TrueOp"]
          [] type_of(e) = "Not" ->
                IF o.raised # "" THEN o ELSE [raised |-> "", value |-> ~o.value]
          [] type_of(e) = "And" ->
                IF l.raised # "" \/ ~l.value THEN l ELSE r
          [] type_of(e) = "Or" ->
                IF l.raised # "" \/ l.value THEN l ELSE r
          [] type_of(e) = "InFunc" ->
                IF l.raised # "" THEN [raised |-> l.raised, value |-> FALSE]
                ELSE IF \E i \in 1..Len(vs) :
                            /\ vs[i].raised # ""
                            /\ \A j \in 1..(i - 1) : vs[j].value # l.value
                     THEN [raised |-> ValueNotAvailable, value |-> FALSE]
                     ELSE [raised |-> "",
                           value |-> \E i \in 1..Len(vs) : vs[i].value = l.value]
          [] OTHER ->
                IF l.raised # "" THEN [raised |-> l.raised, value |-> FALSE]
                ELSE IF r.raised # "" THEN [raised |-> r.raised, value |-> FALSE]
                ELSE literal_compare(type_of(e), l.value, r.value)

\* ---------------------------------------------------------------------
\* The parser (parser.py).  A statement is a string, as in the source,
\* and index counts the characters consumed, ParsedString.index.  Every
\* consumer gives Parsed(raised, index, value): the exception it raised
\* or the value it returned, and the index it left.  peek and peek_token
\* are modelled without the whitespace they skip being consumed: every
\* read that follows one skips whitespace again.  A consumer is written
\* as the steps of its code, each step an operator that takes what the
\* steps before it returned.
\* ---------------------------------------------------------------------
ParseException == "ParseException"

LowerCase == "abcdefghijklmnopqrstuvwxyz"
UpperCase == "ABCDEFGHIJKLMNOPQRSTUVWXYZ"
DecimalDigits == "0123456789"

\* re.compile(...) of a character class: the characters it names, and
\* whether it is negated
ALPHANUMERIC == [chars |-> LowerCase \o UpperCase, negated |-> FALSE]
DIGIT == [chars |-> DecimalDigits, negated |-> FALSE]
WORD == [chars |-> LowerCase \o UpperCase \o DecimalDigits \o "_", negated |-> FALSE]
WHITESPACE == [chars |-> " \t\n\r", negated |-> FALSE]
NOT_WHITESPACE == [chars |-> " \t\n\r", negated |-> TRUE]
COMMA == [chars |-> ",", negated |-> FALSE]
NOT_QUOTE == [chars |-> "'", negated |-> TRUE]

\* pattern.match(c)
matches(pattern, c) ==
    (\E k \in 1..Len(pattern.chars) : SubSeq(pattern.chars, k, k) = c) # pattern.negated

\* string[index:index + n]
slice(string, index, n) ==
    IF index >= Len(string) THEN ""
    ELSE SubSeq(string, index + 1,
                IF index + n > Len(string) THEN Len(string) ELSE index + n)

\* str.lower() of one character
lower_char_at(c, ks) ==
    IF ks = {} THEN c
          ELSE SubSeq(LowerCase, CHOOSE k \in ks : TRUE, CHOOSE k \in ks : TRUE)

lower_char(c) ==
    lower_char_at(c, {k \in 1..Len(UpperCase) : SubSeq(UpperCase, k, k) = c})

\* str.lower()
RECURSIVE lower(_)
lower(string) ==
    IF string = "" THEN ""
    ELSE lower_char(SubSeq(string, 1, 1)) \o lower(Tail(string))

\* int(r) of a string of digits
RECURSIVE int(_, _)
int(r, acc) ==
    IF r = "" THEN acc
    ELSE int(Tail(r),
             10 * acc + (CHOOSE k \in 0..9 : SubSeq(DecimalDigits, k + 1, k + 1)
                                             = SubSeq(r, 1, 1)))

\* len(''.join(itertools.takewhile(pattern.match, string[index:])))
RECURSIVE takewhile(_, _, _)
takewhile(pattern, string, index) ==
    IF index < Len(string) /\ matches(pattern, SubSeq(string, index + 1, index + 1))
    THEN 1 + takewhile(pattern, string, index + 1)
    ELSE 0

skip_whitespace(string, index) == index + takewhile(WHITESPACE, string, index)

peek(string, index, num_chars) == slice(string, skip_whitespace(string, index), num_chars)

peek_token_from(string, pattern, at) ==
    SubSeq(string, at + 1, at + takewhile(pattern, string, at))

peek_token(string, index, pattern) ==
    peek_token_from(string, pattern, skip_whitespace(string, index))

Parsed(raised, index, value) == [raised |-> raised, index |-> index, value |-> value]

consume_token_token(string, index, at, n) ==
    IF n = 0 THEN Parsed(ParseException, at, "")
    ELSE Parsed("", at + n, SubSeq(string, at + 1, at + n))

consume_token_from(string, index, pattern, at) ==
    consume_token_token(string, index, at, takewhile(pattern, string, at))

consume_token(string, index, pattern) ==
    consume_token_from(string, index, pattern, skip_whitespace(string, index))

\* consume_expected(expected), match_case=False
consume_expected_got(index, expected, at, toRet) ==
    IF lower(expected) # lower(toRet) THEN Parsed(ParseException, at, toRet)
    ELSE Parsed("", at + Len(expected), toRet)

consume_expected_from(string, index, expected, at) ==
    consume_expected_got(index, expected, at, slice(string, at, Len(expected)))

consume_expected(string, index, expected) ==
    consume_expected_from(string, index, expected, skip_whitespace(string, index))

\* ColumnReference(table, column, as_name); as_name "" is None
ColumnReferenceAs(table, column, as_name) ==
    [table |-> table, column |-> column, as_name |-> as_name]

column_consumer_named(table, name, as_name) ==
    IF as_name.raised # "" THEN as_name
    ELSE Parsed("", as_name.index,
                ColumnReferenceAs(table.value, name.value, as_name.value))

column_consumer_column(string, table, name) ==
    IF name.raised # "" THEN name
    ELSE IF peek_token(string, name.index, ALPHANUMERIC) = "AS"
         THEN column_consumer_named(table, name,
                    consume_token(string,
                                  consume_expected(string, name.index, "AS").index,
                                  WORD))
         ELSE Parsed("", name.index,
                     ColumnReferenceAs(table.value, name.value, ""))

column_consumer_dotted(string, table, period) ==
    IF period.raised # "" THEN period
    ELSE column_consumer_column(string, table, consume_token(string, period.index, WORD))

column_consumer_tabled(string, table) ==
    IF table.raised # "" THEN table
    ELSE column_consumer_dotted(string, table, consume_expected(string, table.index, "."))

column_consumer(string, index) ==
    column_consumer_tabled(string, consume_token(string, index, WORD))

\* the while loop of string_literal: r so far, index after a closing quote
RECURSIVE string_literal_more(_, _, _)
string_literal_more_closed(string, r, more, quote) ==
    IF quote.raised # "" THEN quote
    ELSE string_literal_more(string, quote.index, r \o "'" \o more.value)

string_literal_more_continued(string, r, more) ==
    IF more.raised # "" THEN more
    ELSE string_literal_more_closed(string, r, more, consume_expected(string, more.index, "'"))

string_literal_more(string, index, r) ==
    IF slice(string, index, 1) # "'" THEN Parsed("", index, StringLiteral(r))
    ELSE string_literal_more_continued(string, r, consume_token(string, index + 1, NOT_QUOTE))

string_literal_closed(string, r, close) ==
    IF close.raised # "" THEN close
    ELSE string_literal_more(string, close.index, r.value)

string_literal_quoted(string, r) ==
    IF r.raised # "" THEN r
    ELSE string_literal_closed(string, r, consume_expected(string, r.index, "'"))

string_literal_opened(string, open) ==
    IF open.raised # "" THEN open
    ELSE string_literal_quoted(string, consume_token(string, open.index, NOT_QUOTE))

string_literal(string, index) ==
    string_literal_opened(string, consume_expected(string, index, "'"))

integer_literal_digits(r) ==
    IF r.raised # "" THEN r
    ELSE Parsed("", r.index, IntegerLiteral(int(r.value, 0)))

integer_literal(string, index) ==
    integer_literal_digits(consume_token(string, index, DIGIT))

\* try_consume(parsed_string, LITERALS): the first consumer that does not
\* raise ParseException; the index is put back after each that does
try_consume_third(index, c) ==
    IF c.raised = "" THEN c ELSE Parsed(ParseException, index, "")

try_consume_second(string, index, s) ==
    IF s.raised = "" THEN s ELSE try_consume_third(index, column_consumer(string, index))

try_consume_first(string, index, i) ==
    IF i.raised = "" THEN i ELSE try_consume_second(string, index, string_literal(string, index))

try_consume(string, index) ==
    try_consume_first(string, index, integer_literal(string, index))

\* the while loop of column_definition_consumer: the constraints
RECURSIVE column_constraints(_, _, _, _)
column_constraints_primary_key(string, col_type, flags, key) ==
    IF key.raised # "" THEN key
    ELSE IF col_type # "int" THEN Parsed("Exception", key.index, "")
    ELSE column_constraints(string, key.index, col_type,
                            flags \cup {"PRIMARY_KEY"})

column_constraints_not_null(string, col_type, flags, null) ==
    IF null.raised # "" THEN null
    ELSE column_constraints(string, null.index, col_type,
                            flags \cup {"NOT_NULL"})

column_constraints_constraint(string, index, col_type, flags, next_token, after) ==
    IF next_token = "primary"
    THEN column_constraints_primary_key(string, col_type, flags, consume_expected(string, after, "key"))
    ELSE IF next_token = "unique"
    THEN column_constraints(string, after, col_type, flags \cup {"UNIQUE"})
    ELSE IF next_token = "not"
    THEN column_constraints_not_null(string, col_type, flags, consume_expected(string, after, "null"))
    ELSE Parsed("", index, flags)

column_constraints_peeked(string, index, col_type, flags, next_token) ==
    column_constraints_constraint(string, index, col_type, flags, next_token, consume_expected(string, index, next_token).index)

column_constraints(string, index, col_type, flags) ==
    column_constraints_peeked(string, index, col_type, flags, lower(peek_token(string, index, ALPHANUMERIC)))

\* ColumnDefinition(name, type, size, constraints)
column_definition_consumer_defined(name, col_type, size, flags) ==
    IF flags.raised # "" THEN flags
    ELSE Parsed("", flags.index,
                [name |-> name.value, type |-> col_type, size |-> size,
                 constraints |-> flags.value])

column_definition_consumer_closed(string, name, size, close) ==
    IF close.raised # "" THEN close
    ELSE column_definition_consumer_defined(name, "varchar", int(size.value, 0),
                 column_constraints(string, close.index, "varchar", {}))

column_definition_consumer_sized(string, name, size) ==
    IF size.raised # "" THEN size
    ELSE column_definition_consumer_closed(string, name, size, consume_expected(string, size.index, ")"))

column_definition_consumer_opened(string, name, open) ==
    IF open.raised # "" THEN open
    ELSE column_definition_consumer_sized(string, name, consume_token(string, open.index, DIGIT))

column_definition_consumer_typed(string, name, token, col_type) ==
    IF token.raised # "" THEN token
    ELSE IF col_type \notin {"int", "double", "varchar"}
         THEN Parsed(ParseException, token.index, "")
    ELSE IF col_type = "varchar"
         THEN column_definition_consumer_opened(string, name, consume_expected(string, token.index, "("))
         ELSE column_definition_consumer_defined(name, col_type, 8,
                      column_constraints(string, token.index, col_type, {}))

column_definition_consumer_typing(string, name, token) ==
    column_definition_consumer_typed(string, name, token, lower(token.value))

column_definition_consumer_named(string, name) ==
    IF name.raised # "" THEN name
    ELSE column_definition_consumer_typing(string, name, consume_token(string, name.index, ALPHANUMERIC))

column_definition_consumer(string, index) ==
    column_definition_consumer_named(string, consume_token(string, index, ALPHANUMERIC))

\* (column, value) of one SET expression
_update_expr_consumer_valued(column, value) ==
    IF value.raised # "" THEN value
    ELSE Parsed("", value.index, <<column.value, value.value>>)

_update_expr_consumer_assigned(string, column, equals) ==
    IF equals.raised # "" THEN equals
    ELSE _update_expr_consumer_valued(column, try_consume(string, equals.index))

_update_expr_consumer_columned(string, column) ==
    IF column.raised # "" THEN column
    ELSE _update_expr_consumer_assigned(string, column, consume_expected(string, column.index, "="))

_update_expr_consumer(string, index) ==
    _update_expr_consumer_columned(string, column_consumer(string, index))

\* consume_list(parsed_string, consumer), results so far
RECURSIVE consume_list(_, _, _, _)
consume_list(consumer(_, _), string, index, results) ==
    LET consumed(r) ==
            IF r.raised # "" THEN r
            ELSE IF peek_token(string, r.index, COMMA) = ","
                 THEN consume_list(consumer, string,
                                   consume_token(string, r.index, COMMA).index,
                                   Append(results, r.value))
                 ELSE Parsed("", r.index, Append(results, r.value))
    IN  consumed(consumer(string, index))

\* OPERATIONS and OPERATIONS2: the class of an operator
operation_class(operation) ==
    CASE operation = "=" -> "Equals"
      [] operation = "<" -> "LessThan"
      [] operation = ">" -> "GreaterThan"
      [] operation = "!=" -> "NotEquals"
      [] operation = ">=" -> "GreaterThanEquals"
      [] operation = "<=" -> "LessThanEquals"

RECURSIVE _where(_, _)
RECURSIVE _where_more(_, _, _)

\* ( _where ) of _where, and of not ( _where ) with negate
where_parens_closed(negate, logic, close) ==
    IF close.raised # "" THEN close
    ELSE Parsed("", close.index,
                IF negate THEN Not(logic.value) ELSE logic.value)

where_parens_inside(string, negate, logic) ==
    IF logic.raised # "" THEN logic
    ELSE where_parens_closed(negate, logic, consume_expected(string, logic.index, ")"))

where_parens_opened(string, negate, open) ==
    IF open.raised # "" THEN open ELSE where_parens_inside(string, negate, _where(string, open.index))

where_parens(string, index, negate) ==
    where_parens_opened(string, negate, consume_expected(string, index, "("))

\* left in ( ... )
where_in_closed(left, values, close) ==
    IF close.raised # "" THEN close
    ELSE Parsed("", close.index, InFunc(left, values.value))

where_in_listed(string, left, values) ==
    IF values.raised # "" THEN values
    ELSE where_in_closed(left, values, consume_expected(string, values.index, ")"))

where_in_opened(string, left, open) ==
    IF open.raised # "" THEN open
    ELSE where_in_listed(string, left, consume_list(try_consume, string, open.index, <<>>))

where_in(string, index, left) ==
    where_in_opened(string, left, consume_expected(string, index, "("))

\* _where_clause from the operator on
where_operation_compared(left, operation, right) ==
    IF right.raised # "" THEN right
    ELSE Parsed("", right.index,
                Operation(operation_class(operation), left, right.value))

where_operation_after(string, left, operation, at) ==
    IF operation = "in" THEN where_in(string, at, left)
    ELSE where_operation_compared(left, operation, try_consume(string, at))

where_operation(string, index, left, operation) ==
    where_operation_after(string, left, operation, consume_expected(string, index, operation).index)

_where_clause_operand(string, left) ==
    IF left.raised # "" THEN left
    ELSE IF peek(string, left.index, 2) \in {"!=", ">=", "<=", "in"}
         THEN where_operation(string, left.index, left.value,
                              peek(string, left.index, 2))
    ELSE IF peek(string, left.index, 1) \in {"=", "<", ">"}
         THEN where_operation(string, left.index, left.value,
                              peek(string, left.index, 1))
         ELSE Parsed(ParseException, left.index, "")

_where_clause(string, index) ==
    IF peek_token(string, index, ALPHANUMERIC) = "not"
    THEN where_parens(string, consume_expected(string, index, "not").index, TRUE)
    ELSE _where_clause_operand(string, try_consume(string, index))

\* the while loop of _where: each and/or takes the whole rest as its right side
_where_more_joined(string, logic, op, n) ==
    IF n.raised # "" THEN n
    ELSE _where_more(string, n.index,
                     Operation(IF op = "and" THEN "And" ELSE "Or", logic, n.value))

_where_more_option(string, index, logic, op) ==
    IF op \notin {"and", "or"} THEN Parsed("", index, logic)
    ELSE _where_more_joined(string, logic, op, _where(string,
                           consume_token(string, index, ALPHANUMERIC).index))

_where_more(string, index, logic) ==
    _where_more_option(string, index, logic, lower(peek_token(string, index, ALPHANUMERIC)))

\* _where
_where_first(string, logic) ==
    IF logic.raised # "" THEN logic
    ELSE _where_more(string, logic.index, logic.value)

_where(string, index) ==
    _where_first(string, IF peek(string, index, 1) = "(" THEN where_parens(string, index, FALSE)
          ELSE _where_clause(string, index))

\* JoinTable(table, left, right); a join without ON has left = right = None,
\* here the reference with no names
JoinTable(table, left, right) == [table |-> table, left |-> left, right |-> right]

\* ON left = right of _from: the column of the joined table goes second
\* ON left = right kept as written, the column before = as left
join_on_paired_unswapped(joined_table_ref, left, right) ==
    IF right.raised # "" THEN right
    ELSE Parsed("", right.index, JoinTable(joined_table_ref, left.value, right.value))

\* left, right = right, left when right is not of the joined table
join_on_paired(joined_table_ref, left, right) ==
    IF right.raised # "" THEN right
    ELSE IF right.value.table # joined_table_ref
         THEN Parsed("", right.index,
                     JoinTable(joined_table_ref, right.value, left.value))
         ELSE Parsed("", right.index,
                     JoinTable(joined_table_ref, left.value, right.value))

join_on_equated(string, joined_table_ref, left, equals) ==
    IF equals.raised # "" THEN equals
    ELSE join_on_paired(joined_table_ref, left, column_consumer(string, equals.index))

join_on_lefted(string, joined_table_ref, left) ==
    IF left.raised # "" THEN left
    ELSE join_on_equated(string, joined_table_ref, left, consume_expected(string, left.index, "="))

join_on(string, index, joined_table_ref) ==
    join_on_lefted(string, joined_table_ref, column_consumer(string, consume_expected(string, index, "on").index))

\* the while loop of _from
RECURSIVE from_joins(_, _, _)
from_joins_joined(string, joins, on) ==
    IF on.raised # "" THEN on
    ELSE from_joins(string, on.index, Append(joins, on.value))

from_joins_tabled(string, joins, joined_table_ref) ==
    IF joined_table_ref.raised # "" THEN joined_table_ref
    ELSE IF lower(peek_token(string, joined_table_ref.index, ALPHANUMERIC)) = "on"
         THEN from_joins_joined(string, joins, join_on(string, joined_table_ref.index,
                             joined_table_ref.value))
         ELSE from_joins(string, joined_table_ref.index,
                         Append(joins,
                                JoinTable(joined_table_ref.value,
                                          ColumnReferenceAs("", "", ""),
                                          ColumnReferenceAs("", "", ""))))

from_joins(string, index, joins) ==
    IF lower(peek_token(string, index, ALPHANUMERIC)) \notin {"left", "join"}
    THEN Parsed("", index, joins)
    ELSE from_joins_tabled(string, joins, consume_token(string,
                              consume_token(string, index, ALPHANUMERIC).index,
                              WORD))

\* From(table, joins)
_from_joined(table, joins) ==
    IF joins.raised # "" THEN joins
    ELSE Parsed("", joins.index, [table |-> table.value, joins |-> joins.value])

_from_tabled(string, table) ==
    IF table.raised # "" THEN table
    ELSE _from_joined(table, from_joins(string, table.index, <<>>))

_from_keyword(string, from) ==
    IF from.raised # "" THEN from
    ELSE _from_tabled(string, consume_token(string, from.index, WORD))

_from(string, index) ==
    _from_keyword(string, consume_expected(string, index, "from"))

\* OrderBy(columns, reverse)
_order_by_directed(string, order_by, desc) ==
    Parsed("", IF desc THEN consume_expected(string, order_by.index, "desc").index
               ELSE order_by.index,
           [columns |-> order_by.value, reverse |-> desc])

_order_by_listed(string, order_by) ==
    IF order_by.raised # "" THEN order_by
    ELSE _order_by_directed(string, order_by,
                  lower(peek_token(string, order_by.index, ALPHANUMERIC)) = "desc")

_order_by_second(string, by) ==
    IF by.raised # "" THEN by
    ELSE _order_by_listed(string, consume_list(column_consumer, string, by.index, <<>>))

_order_by_first(string, order) ==
    IF order.raised # "" THEN order
    ELSE _order_by_second(string, consume_expected(string, order.index, "by"))

_order_by(string, index) ==
    _order_by_first(string, consume_expected(string, index, "order"))

\* _where(parsed_string).simplify(): the simplified clause, or what
\* parsing or simplifying it raised
where_simplified_simplified(logic, where_clause) ==
    IF where_clause.raised # "" THEN Parsed(where_clause.raised, logic.index, "")
    ELSE Parsed("", logic.index, where_clause.expr)

where_simplified_parsed(logic) ==
    IF logic.raised # "" THEN logic
    ELSE where_simplified_simplified(logic, simplify(logic.value))

where_simplified(string, index) ==
    where_simplified_parsed(_where(string, consume_expected(string, index, "where").index))

\* Select(columns, from_clause, where, order_by); order_by None is the
\* OrderBy of no columns
parse_select_select(columns, from_clause, where_clause, order_by) ==
    IF order_by.raised # "" THEN order_by
    ELSE Parsed("", order_by.index,
                [type |-> "select", columns |-> columns.value,
                 from_clause |-> from_clause.value,
                 where |-> where_clause.value, order_by |-> order_by.value])

parse_select_ordered(string, columns, from_clause, where_clause, token) ==
    IF token = "order"
    THEN parse_select_select(columns, from_clause, where_clause,
                _order_by(string, where_clause.index))
    ELSE IF token # "" THEN Parsed(ParseException, where_clause.index, "")
    ELSE parse_select_select(columns, from_clause, where_clause,
                Parsed("", where_clause.index,
                       [columns |-> <<>>, reverse |-> FALSE]))

parse_select_filtered(string, columns, from_clause, where_clause) ==
    IF where_clause.raised # "" THEN where_clause
    ELSE parse_select_ordered(string, columns, from_clause, where_clause,
                 lower(peek_token(string, where_clause.index, NOT_WHITESPACE)))

parse_select_sourced(string, columns, from_clause) ==
    IF from_clause.raised # "" THEN from_clause
    ELSE IF lower(peek_token(string, from_clause.index, NOT_WHITESPACE)) = "where"
         THEN parse_select_filtered(string, columns, from_clause,
                       where_simplified(string, from_clause.index))
         ELSE parse_select_filtered(string, columns, from_clause,
                       Parsed("", from_clause.index, TrueOp))

parse_select_listed(string, columns) ==
    IF columns.raised # "" THEN columns
    ELSE parse_select_sourced(string, columns, _from(string, columns.index))

parse_select(string, index) ==
    parse_select_listed(string, consume_list(column_consumer, string, index, <<>>))

\* Insert(table, values)
parse_insert_closed(table, list, close) ==
    IF close.raised # "" THEN close
    ELSE Parsed("", close.index,
                [type |-> "insert", table |-> table.value, values |-> list.value])

parse_insert_listed(string, table, list) ==
    IF list.raised # "" THEN list
    ELSE parse_insert_closed(table, list, consume_expected(string, list.index, ")"))

parse_insert_opened(string, table, open) ==
    IF open.raised # "" THEN open
    ELSE parse_insert_listed(string, table, consume_list(try_consume, string, open.index, <<>>))

parse_insert_valued(string, table, values) ==
    IF values.raised # "" THEN values
    ELSE parse_insert_opened(string, table, consume_expected(string, values.index, "("))

parse_insert_tabled(string, table) ==
    IF table.raised # "" THEN table
    ELSE parse_insert_valued(string, table, consume_expected(string, table.index, "values"))

parse_insert_keyword(string, into) ==
    IF into.raised # "" THEN into
    ELSE parse_insert_tabled(string, consume_token(string, into.index, WORD))

parse_insert(string, index) ==
    parse_insert_keyword(string, consume_expected(string, index, "into"))

\* CreateTable(table, columns)
parse_create_closed(table, column_defs, close) ==
    IF close.raised # "" THEN close
    ELSE Parsed("", close.index,
                [type |-> "create", table |-> table.value,
                 columns |-> column_defs.value])

parse_create_listed(string, table, column_defs) ==
    IF column_defs.raised # "" THEN column_defs
    ELSE parse_create_closed(table, column_defs,
                consume_expected(string, column_defs.index, ")"))

parse_create_opened(string, table, open) ==
    IF open.raised # "" THEN open
    ELSE parse_create_listed(string, table, consume_list(column_definition_consumer, string,
                                    open.index, <<>>))

parse_create_tabled(string, table) ==
    IF table.raised # "" THEN table
    ELSE parse_create_opened(string, table, consume_expected(string, table.index, "("))

parse_create_keyword(string, table) ==
    IF table.raised # "" THEN table
    ELSE parse_create_tabled(string, consume_token(string, table.index, WORD))

parse_create(string, index) ==
    parse_create_keyword(string, consume_expected(string, index, "table"))

\* {k: v for k, v in columns}: a column named again keeps its place and
\* takes the later value
RECURSIVE dict(_, _, _)
dict(columns, i, map) ==
    IF i > Len(columns) THEN map
    ELSE IF \E j \in 1..Len(map) : same_reference(map[j][1], columns[i][1])
         THEN dict(columns, i + 1,
                   [j \in 1..Len(map) |->
                       IF same_reference(map[j][1], columns[i][1])
                       THEN <<map[j][1], columns[i][2]>> ELSE map[j]])
         ELSE dict(columns, i + 1, Append(map, columns[i]))

\* the optional WHERE of UPDATE and DELETE; no WHERE gives None
where_or_none_peeked(string, index, token) ==
    IF token = "where" THEN where_simplified(string, index)
    ELSE IF token # "" THEN Parsed(ParseException, index, "")
    ELSE Parsed("", index, [kind |-> "NoneType"])

where_or_none(string, index) ==
    where_or_none_peeked(string, index, lower(peek_token(string, index, NOT_WHITESPACE)))

\* Update(table, columns, where)
parse_update_filtered(table, columns, where_clause) ==
    IF where_clause.raised # "" THEN where_clause
    ELSE Parsed("", where_clause.index,
                [type |-> "update", table |-> table.value,
                 columns |-> dict(columns.value, 1, <<>>),
                 where |-> where_clause.value])

parse_update_listed(string, table, columns) ==
    IF columns.raised # "" THEN columns
    ELSE parse_update_filtered(table, columns, where_or_none(string, columns.index))

parse_update_keyword(string, table, set) ==
    IF set.raised # "" THEN set
    ELSE parse_update_listed(string, table, consume_list(_update_expr_consumer, string,
                                    set.index, <<>>))

parse_update_tabled(string, table) ==
    IF table.raised # "" THEN table
    ELSE parse_update_keyword(string, table, consume_expected(string, table.index, "set"))

parse_update(string, index) ==
    parse_update_tabled(string, consume_token(string, index, WORD))

\* Delete(table, where)
parse_delete_filtered(table, where_clause) ==
    IF where_clause.raised # "" THEN where_clause
    ELSE Parsed("", where_clause.index,
                [type |-> "delete", table |-> table.value,
                 where |-> where_clause.value])

parse_delete_tabled(string, table) ==
    IF table.raised # "" THEN table
    ELSE parse_delete_filtered(table, where_or_none(string, table.index))

parse_delete_keyword(string, from) ==
    IF from.raised # "" THEN from
    ELSE parse_delete_tabled(string, consume_token(string, from.index, WORD))

parse_delete(string, index) ==
    parse_delete_keyword(string, consume_expected(string, index, "from"))

\* parse(query): [raised, statement]
parse_statement(parsed) ==
    [raised |-> parsed.raised,
     statement |-> IF parsed.raised = "" THEN parsed.value ELSE ""]

parse_typed(query, next_token, type) ==
    CASE type = "select" -> parse_statement(parse_select(query, next_token.index))
      [] type = "insert" -> parse_statement(parse_insert(query, next_token.index))
      [] type = "create" -> parse_statement(parse_create(query, next_token.index))
      [] type = "update" -> parse_statement(parse_update(query, next_token.index))
      [] type = "delete" -> parse_statement(parse_delete(query, next_token.index))
      [] OTHER -> [raised |-> ParseException, statement |-> ""]

parse_query_type(query, next_token) ==
    IF next_token.raised # "" THEN [raised |-> ParseException, statement |-> ""]
    ELSE parse_typed(query, next_token, lower(next_token.value))

parse(query) ==
    parse_query_type(query, consume_token(query, 0, ALPHANUMERIC))

(***************************************************************************)
(* Expressions and statement texts on their own: simplify applied to any   *)
(* expression of Exprs and again to what it returned, and parse applied to *)
(* any text of Statements.  command is the call made last, result what it  *)
(* returned or raised; the tables and the tree are unused.                 *)
(***************************************************************************)
\* The operands of the comparisons: two columns, two integers, a string.
Operands ==
    {main_id, main_cola, IntegerLiteral(1), IntegerLiteral(2),
     StringLiteral("a")}

ComparisonClasses ==
    {"Equals", "NotEquals", "GreaterThan", "GreaterThanEquals", "LessThan",
     "LessThanEquals"}

\* Every comparison of two operands, and IN lists.
Terminals ==
    {Operation(c, l, r) : c \in ComparisonClasses, l \in Operands, r \in Operands}
    \cup {InFunc(l, <<IntegerLiteral(1), IntegerLiteral(2)>>) :
            l \in {main_id, IntegerLiteral(1)}}

\* The terminals that And, Or and Not are built over.
Inner ==
    {Operation(c, l, r) : c \in {"Equals", "NotEquals", "LessThan"},
                          l \in {main_id, IntegerLiteral(1)},
                          r \in {main_id, IntegerLiteral(1),
                                 IntegerLiteral(2)}}
    \cup {InFunc(main_id, <<IntegerLiteral(1)>>)}

Negated == Inner \cup {Not(e) : e \in Inner}

Exprs ==
    Terminals \cup Negated \cup {Not(Not(e)) : e \in Inner}
    \cup {Operation(c, l, r) : c \in {"And", "Or"}, l \in Negated, r \in Negated}
    \cup {Operation(c, Operation(d, l, r), r) :
            c \in {"And", "Or"}, d \in {"And", "Or"}, l \in Inner, r \in Inner}

\* A statement text is given by its words, the positions of the words that
\* are keywords, and the positions of the keywords written in upper case;
\* the text is the words with a space between them.
Template(words, keywords) == [words |-> words, keywords |-> keywords]

\* str.upper() of one character
upper_char(c) ==
    LET at(ks) == IF ks = {} THEN c
                  ELSE SubSeq(UpperCase, CHOOSE k \in ks : TRUE, CHOOSE k \in ks : TRUE)
    IN  at({k \in 1..Len(LowerCase) : SubSeq(LowerCase, k, k) = c})

\* str.upper()
RECURSIVE upper(_)
upper(string) ==
    IF string = "" THEN ""
    ELSE upper_char(SubSeq(string, 1, 1)) \o upper(Tail(string))

RECURSIVE text_from(_, _, _)
text_from(words, uppercase, i) ==
    IF i > Len(words) THEN ""
    ELSE (IF i \in uppercase THEN upper(words[i]) ELSE words[i])
         \o (IF i < Len(words) THEN " " ELSE "")
         \o text_from(words, uppercase, i + 1)

\* The comparisons of the WHERE clauses: texts of column op literal and
\* literal op column.
ComparisonTexts ==
    {"main.id = 1", "main.id != 2", "main.cola = 1", "main.cola < 2", "2 = main.cola"}

\* SELECT ... WHERE A and B or C, and WHERE A or B and C.
TwoOperatorTemplates ==
    {Template(<<"select", "main.id,", "main.cola", "from", "main", "where",
                a, o[1], b, o[2], c>>, {1, 4, 6, 8, 10}) :
        a \in ComparisonTexts, b \in ComparisonTexts, c \in ComparisonTexts,
        o \in {<<"and", "or">>, <<"or", "and">>}}

OperandTexts == {"main.id", "main.cola", "1", "2", "'a'"}

\* SELECT ... WHERE left op right, and WHERE not (left op right)
OneOperatorTemplates ==
    {Template(<<"select", "main.id", "from", "main", "where", l, op, r>>, {1, 3, 5}) :
        l \in OperandTexts, r \in OperandTexts,
        op \in {"=", "!=", "<", "<=", ">", ">="}}
    \cup {Template(<<"select", "main.id", "from", "main", "where", "not", "(",
                     l, op, "main.id", ")">>, {1, 3, 5, 6}) :
            l \in {"1", "main.cola"}, op \in {"=", "!="}}

\* One statement of every kind, with every keyword of the dialect.
KeywordTemplates ==
    {Template(<<"select", "main.id", "as", "x,", "main.cola", "from", "main",
                "where", "main.id", "in", "(1, 2)", "order", "by", "main.id", "desc">>,
              {1, 3, 6, 8, 10, 12, 13, 15}),
     Template(<<"select", "main.id", "from", "main", "join", "other", "on",
                "main.id = other.id", "where", "not", "(main.id = 1)", "and",
                "main.cola = 2", "or", "main.cola = 1">>,
              {1, 3, 5, 7, 9, 10, 12, 14}),
     Template(<<"insert", "into", "main", "values", "(1, 'a')">>, {1, 2, 4}),
     Template(<<"update", "main", "set", "main.cola = 1", "where", "main.id = 2">>,
              {1, 3, 5}),
     Template(<<"create", "table", "main(id", "int", "primary", "key,", "cola",
                "int", "unique", "not", "null)">>, {1, 2, 5, 6, 9, 10, 11})}

\* SELECT ... FROM main JOIN other ON ..., with JOIN, LEFT JOIN and LEFT.
JoinTemplates ==
    {Template(<<"select", "main.id,", "other.colb", "from", "main", j, "other",
                "on", o>>, {1, 4, 6, 8}) :
        j \in {"join", "left join", "left"},
        o \in {"main.id = other.id", "other.colb = main.cola"}}

\* The statements parsed: every way of writing the keywords of a keyword
\* template in lower or upper case, and the other templates with all
\* keywords in lower and in upper case.
Statements ==
    UNION {{[type |-> "parse", words |-> t.words, keywords |-> t.keywords,
             uppercase |-> u, text |-> text_from(t.words, u, 1)] :
                u \in SUBSET t.keywords} : t \in KeywordTemplates}
    \cup UNION {{[type |-> "parse", words |-> t.words, keywords |-> t.keywords,
                  uppercase |-> u, text |-> text_from(t.words, u, 1)] :
                     u \in {{}, t.keywords}} :
                  t \in TwoOperatorTemplates \cup OneOperatorTemplates
                        \cup JoinTemplates}

\* The call to make: parse(text) of a statement, or e.simplify().
ParseInit ==
    /\ tables = <<[main |-> NoTable], [main |-> NoTable]>>
    /\ data = [main |-> <<>>]
    /\ TreeIdle
    /\ result = NoResult
    /\ \/ command \in Statements
       \/ command \in {[type |-> "simplify", expr |-> e] : e \in Exprs}

\* parse(text)
Parse ==
    /\ command.type = "parse"
    /\ result = NoResult
    /\ result' = parse(command.text)
    /\ UNCHANGED <<command, tables, data, tree, last, nrepl>>

\* e.simplify()
Simplify ==
    /\ command.type = "simplify"
    /\ result = NoResult
    /\ result' = simplify(command.expr)
    /\ UNCHANGED <<command, tables, data, tree, last, nrepl>>

\* simplify applied to the expression that simplify returned
SimplifyAgain ==
    /\ command.type = "simplify"
    /\ result # NoResult
    /\ result.raised = ""
    /\ command' = [type |-> "simplify again", expr |-> result.expr]
    /\ result' = simplify(result.expr)
    /\ UNCHANGED <<tables, data, tree, last, nrepl>>

ParseNext == Parse \/ Simplify \/ SimplifyAgain

SpecParse == ParseInit /\ [][ParseNext]_vars

\* C15: simplifying an expression that simplify returned succeeds and
\* returns that expression again: simplify(simplify(e)) = simplify(e).
C15_SimplifyIdempotent ==
    command.type = "simplify again" => result = Simplified("", command.expr)

\* The comparison nodes (=, !=, <, <=, >, >=) of an expression tree.
RECURSIVE ComparisonNodes(_)
ComparisonNodes(e) ==
    IF type_of(e) \in ComparisonClasses THEN {e}
    ELSE IF type_of(e) \in {"And", "Or"}
    THEN ComparisonNodes(e.left) \cup ComparisonNodes(e.right)
    ELSE IF type_of(e) = "Not" THEN ComparisonNodes(e.operation)
    ELSE {}

\* A statement was parsed and its WHERE clause simplified.
ParsedWhere ==
    /\ command.type = "parse"
    /\ result # NoResult
    /\ result.raised = ""
    /\ result.statement.type \in {"select", "update"}

\* C16: in the simplified WHERE clause of a parsed statement, a comparison
\* with a column reference as an operand does not have a literal as its
\* left operand.
C16_LiteralNotLeft ==
    ParsedWhere =>
        \A c \in ComparisonNodes(result.statement.where) :
            (type_of(c.left) = "ColumnReference" \/ type_of(c.right) = "ColumnReference")
                => ~is_literal(c.left)

\* The comparison that a comparison text is parsed to.
ComparisonOf(text) == _where(text, 0).value

\* The WHERE clause that binding AND tighter than OR gives a OP1 b OP2 c,
\* simplified as parse simplifies the clause.
Precedence(a, op1, b, op2, c) ==
    IF op1 = "and"
    THEN simplify(Operation("Or", Operation("And", a, b), c))
    ELSE simplify(Operation("Or", a, Operation("And", b, c)))

\* C17: AND binds tighter than OR: A AND B OR C parses to Or(And(A, B), C)
\* and A OR B AND C to Or(A, And(B, C)).
C17_AndBindsTighter ==
    (/\ command.type = "parse"
     /\ result # NoResult
     /\ Len(command.words) = 11
     /\ {command.words[8], command.words[10]} = {"and", "or"})
    => /\ result.raised = Precedence(ComparisonOf(command.words[7]), command.words[8],
                                     ComparisonOf(command.words[9]), command.words[10],
                                     ComparisonOf(command.words[11])).raised
       /\ result.raised = ""
            => result.statement.where =
                 Precedence(ComparisonOf(command.words[7]), command.words[8],
                            ComparisonOf(command.words[9]), command.words[10],
                            ComparisonOf(command.words[11])).expr

\* C18: a statement parses to the same syntax tree whatever the case of
\* its keywords: the result of parse is that of the text with every
\* keyword in lower case.
C18_KeywordCase ==
    (command.type = "parse" /\ result # NoResult)
        => result = parse(text_from(command.words, {}, 1))

(***************************************************************************)
(* Database (python_sql/database.py): SELECT of a parsed statement, with   *)
(* joins.  tabs is self.tables of the instance, store the storage          *)
(* driver's rows by table name.  The columns of the select list, the ON    *)
(* clause and the WHERE clause are the references the parser built, found  *)
(* among a table's references with ColumnReference.__eq__.                 *)
(***************************************************************************)
AttributeError == "AttributeError"

\* columns.index(reference), from 1; 0 where list.index raises ValueError
column_index(columns, reference) ==
    IF \E i \in 1..Len(columns) : same_reference(columns[i], reference)
    THEN CHOOSE i \in 1..Len(columns) :
            /\ same_reference(columns[i], reference)
            /\ \A j \in 1..(i - 1) : ~same_reference(columns[j], reference)
    ELSE 0

RECURSIVE column_indexes(_, _, _)
\* [columns.index(c) for c in references], from the i-th on
column_indexes(columns, references, i) ==
    IF i > Len(references) THEN <<>>
    ELSE <<column_index(columns, references[i])>>
         \o column_indexes(columns, references, i + 1)

\* Database._get_table: the table, or NoTable where it raises
get_table(tabs, table_name) ==
    IF table_name \in DOMAIN tabs THEN tabs[table_name] ELSE NoTable

\* issubclass(type(where_clause), Terminal)
is_terminal(where_clause) == type_of(where_clause) \in ComparisonClasses \cup {"InFunc"}

\* main_table.primary_key_ref in where_clause.columns_used(): [left, right]
\* of a comparison, [left, values] of IN, whose second element is a list
primary_key_used(main_table, where_clause) ==
    \/ same_reference(where_clause.left, primary_key_ref(main_table))
    \/ /\ type_of(where_clause) # "InFunc"
       /\ same_reference(where_clause.right, primary_key_ref(main_table))

\* x.value of each operand that _get_rows reads: the right operand of a
\* comparison, the values of IN.  A column reference has no value.
RECURSIVE literal_values(_, _)
literal_values(operands, i) ==
    IF i > Len(operands) THEN [raised |-> "", values |-> <<>>]
    ELSE IF type_of(operands[i]) = "IntegerLiteral"
    THEN [raised |-> literal_values(operands, i + 1).raised,
          values |-> <<operands[i].value>> \o literal_values(operands, i + 1).values]
    ELSE IF type_of(operands[i]) = "StringLiteral"
    THEN [raised |-> TypeError, values |-> <<>>]
    ELSE [raised |-> AttributeError, values |-> <<>>]

\* the operator of a comparison class, as Database._get_rows tells them apart
operation_of(cls) ==
    CASE cls = "Equals" -> "="
      [] cls = "InFunc" -> "in"
      [] cls = "GreaterThan" -> ">"
      [] cls = "GreaterThanEquals" -> ">="
      [] cls = "LessThan" -> "<"
      [] cls = "LessThanEquals" -> "<="
      [] OTHER -> ""

\* Database._get_rows on a clause that uses the primary key, from the
\* values read off its literals
get_rows_by(main_table, rows, where_clause, read) ==
    IF read.raised # "" THEN ReadAll(read.raised, <<>>)
    ELSE Database_get_rows(main_table, rows,
             Comparison(operation_of(type_of(where_clause)),
                        primary_key_ref(main_table),
                        IF read.values = <<>> THEN None ELSE read.values[1],
                        read.values))

\* Database._get_rows of a parsed WHERE clause, consumed to its end
_get_rows(main_table, rows, where_clause) ==
    IF is_terminal(where_clause) /\ primary_key_used(main_table, where_clause)
    THEN IF type_of(where_clause) = "InFunc"
         THEN get_rows_by(main_table, rows, where_clause,
                          literal_values(where_clause.values, 1))
         ELSE IF type_of(where_clause) = "Equals"
                 \/ (type_of(where_clause) # "NotEquals" /\ is_literal(where_clause.right))
         THEN get_rows_by(main_table, rows, where_clause,
                          literal_values(<<where_clause.right>>, 1))
         ELSE Table_scan(main_table, rows, None, None)
    ELSE Table_scan(main_table, rows, None, None)

RECURSIVE matching_rows(_, _, _, _)
\* the rows of right_table.scan() whose value at the join column equals
\* left_table_value, from the i-th row on
matching_rows(scanned, right_table_column_index, left_table_value, i) ==
    IF scanned.raised # "" THEN scanned
    ELSE IF i > Len(scanned.rows) THEN ReadAll("", <<>>)
    ELSE IF right_table_column_index > Len(scanned.rows[i])
    THEN ReadAll(IndexError, <<>>)
    ELSE IF scanned.rows[i][right_table_column_index] = left_table_value
    THEN chain(Read("", scanned.rows[i]),
               matching_rows(scanned, right_table_column_index, left_table_value, i + 1))
    ELSE matching_rows(scanned, right_table_column_index, left_table_value, i + 1)

\* Database._select_join_rows from right_table_column_index on; the rows
\* that are not None
select_join_rows_at(right_table, rows, right_table_column_index, left_table_value) ==
    IF right_table_column_index = 0 THEN ReadAll(ValueError, <<>>)
    ELSE IF column_references(right_table)[right_table_column_index].column
            = right_table.pk_def.name
    THEN chain_found(get_row_by_pk(right_table, rows, left_table_value), ReadAll("", <<>>))
    ELSE matching_rows(Table_scan(right_table, rows, None, None),
                       right_table_column_index, left_table_value, 1)

\* Database._select_join_rows, consumed to its end, without the None it
\* yields for a key that is not in the index
_select_join_rows(right_table, rows, joined_table, left_table_value) ==
    IF ~right_table.exists THEN ReadAll(NoSuchTable, <<>>)
    ELSE select_join_rows_at(right_table, rows,
                             column_index(column_references(right_table),
                                          joined_table.right),
                             left_table_value)

RECURSIVE concatenated(_, _, _)
\* curr_row + right_table_row for each right_table_row, from the i-th on
concatenated(curr_row, right_rows, i) ==
    IF right_rows.raised # "" THEN right_rows
    ELSE IF i > Len(right_rows.rows) THEN ReadAll("", <<>>)
    ELSE IF curr_row = NoneRow THEN ReadAll(TypeError, <<>>)
    ELSE chain(Read("", curr_row \o right_rows.rows[i]),
               concatenated(curr_row, right_rows, i + 1))

\* the rows that one row of temp_rows is joined to
joined_to(right_table, rows, joined_table, left_table_column_index, curr_row) ==
    IF joined_table.left.table = ""
    THEN concatenated(curr_row, Table_scan(right_table, rows, None, None), 1)
    ELSE IF curr_row = NoneRow THEN ReadAll(TypeError, <<>>)
    ELSE IF left_table_column_index > Len(curr_row) THEN ReadAll(IndexError, <<>>)
    ELSE concatenated(curr_row,
                      _select_join_rows(right_table, rows, joined_table,
                                        curr_row[left_table_column_index]),
                      1)

\* the rows of first followed by those of rest; the first that raised
extended(first, rest) ==
    IF first.raised # "" THEN first
    ELSE IF rest.raised # "" THEN rest
    ELSE ReadAll("", first.rows \o rest.rows)

RECURSIVE joined_rows(_, _, _, _, _, _)
\* the for curr_row in temp_rows loop, from the i-th row on
joined_rows(right_table, rows, joined_table, left_table_column_index, temp_rows, i) ==
    IF i > Len(temp_rows) THEN ReadAll("", <<>>)
    ELSE extended(joined_to(right_table, rows, joined_table,
                            left_table_column_index, temp_rows[i]),
                  joined_rows(right_table, rows, joined_table,
                              left_table_column_index, temp_rows, i + 1))

\* What the loops of Database._select have built, or what they raised.
Joined(raised, rows, columns) == [raised |-> raised, rows |-> rows, columns |-> columns]

RECURSIVE join_tables(_, _, _, _, _, _)

\* one joined table of the loop over from_clause.joins, from the table's
\* columns added to columns
join_table(tabs, store, joins, k, temp_rows, columns) ==
    IF joins[k].left.table # "" /\ column_index(columns, joins[k].left) = 0
    THEN Joined(ValueError, <<>>, columns)
    ELSE join_tables(tabs, store, joins, k + 1,
                     joined_rows(get_table(tabs, joins[k].table),
                                 store[joins[k].table], joins[k],
                                 column_index(columns, joins[k].left),
                                 temp_rows.rows, 1),
                     columns)

\* the loop over from_clause.joins for one row of the main table, from the
\* k-th join on
join_tables(tabs, store, joins, k, temp_rows, columns) ==
    IF temp_rows.raised # "" THEN Joined(temp_rows.raised, <<>>, columns)
    ELSE IF k > Len(joins) THEN Joined("", temp_rows.rows, columns)
    ELSE IF ~get_table(tabs, joins[k].table).exists
    THEN Joined(NoSuchTable, <<>>, columns)
    ELSE join_table(tabs, store, joins, k, temp_rows,
                    columns \o column_references(get_table(tabs, joins[k].table)))

RECURSIVE select_rows(_, _, _, _, _, _)

\* the rows of one row of the main table put onto rows
select_row(tabs, store, joins, main_rows, i, built, temp_rows) ==
    IF temp_rows.raised # "" THEN temp_rows
    ELSE select_rows(tabs, store, joins, main_rows, i + 1,
                     Joined("", built.rows \o temp_rows.rows, temp_rows.columns))

\* the loop over the rows of the main table, from the i-th row on
select_rows(tabs, store, joins, main_rows, i, built) ==
    IF i > Len(main_rows) THEN built
    ELSE select_row(tabs, store, joins, main_rows, i, built,
                    join_tables(tabs, store, joins, 1,
                                ReadAll("", <<main_rows[i]>>), built.columns))

\* where.evaluate(Context(row, columns)); Context(None, columns) raises
\* TypeError from zip
evaluate_row(where_clause, row, columns) ==
    IF row = NoneRow THEN [raised |-> TypeError, value |-> FALSE]
    ELSE evaluate(where_clause, row, columns)

RECURSIVE _filter(_, _, _, _)
\* Database._filter consumed to its end, from the i-th row on
_filter(rows, where_clause, columns, i) ==
    IF i > Len(rows) THEN ReadAll("", <<>>)
    ELSE filter_kept(evaluate_row(where_clause, rows[i], columns), rows[i],
                     _filter(rows, where_clause, columns, i + 1))

RECURSIVE trimmed(_, _, _, _)
\* the loop of Database._trim_to_select, from the i-th row on
trimmed(rows, to_retain, selected, i) ==
    IF i > Len(rows) THEN <<>>
    ELSE <<Row(retained(rows[i], to_retain, 1), selected)>>
         \o trimmed(rows, to_retain, selected, i + 1)

\* Database._trim_to_select on the rows filtered and sorted
_trim_to_select(rows, to_retain, selected) ==
    IF rows.raised # "" THEN rows
    ELSE IF 0 \in Range(to_retain) THEN ReadAll(ValueError, <<>>)
    ELSE ReadAll("", trimmed(rows.rows, to_retain, selected, 1))

\* Database._select from the rows built: filter, sort, trim.  Without ORDER
\* BY the filter runs inside _trim_to_select, after to_retain is computed.
select_built(built, select) ==
    IF built.raised # "" THEN ReadAll(built.raised, <<>>)
    ELSE IF select.order_by.columns # <<>>
    THEN _trim_to_select(
             sort_by(_filter(built.rows, select.where, built.columns, 1),
                     column_indexes(built.columns, select.order_by.columns, 1),
                     select.order_by.reverse),
             column_indexes(built.columns, select.columns, 1), select.columns)
    ELSE IF 0 \in Range(column_indexes(built.columns, select.columns, 1))
    THEN ReadAll(ValueError, <<>>)
    ELSE _trim_to_select(_filter(built.rows, select.where, built.columns, 1),
                         column_indexes(built.columns, select.columns, 1),
                         select.columns)

\* Database._select from the rows of the main table
select_main(tabs, store, select, main_table, got) ==
    IF got.raised # "" THEN ReadAll(got.raised, <<>>)
    ELSE select_built(select_rows(tabs, store, select.from_clause.joins, got.rows, 1,
                                  Joined("", <<>>, column_references(main_table))),
                      select)

\* Database._select
_select(tabs, store, select) ==
    IF ~get_table(tabs, select.from_clause.table).exists
    THEN ReadAll(NoSuchTable, <<>>)
    ELSE select_main(tabs, store, select, get_table(tabs, select.from_clause.table),
                     _get_rows(get_table(tabs, select.from_clause.table),
                               store[select.from_clause.table], select.where))

\* Database.execute(command) of a str that holds a SELECT: parse, _select
execute_select(tabs, store, parsed) ==
    IF parsed.raised # "" THEN ReadAll(parsed.raised, <<>>)
    ELSE _select(tabs, store, parsed.statement)

(***************************************************************************)
(* One Database with the tables main(id, cola) and other(id, colb), and    *)
(* SELECT statements with a join, executed from their text.  A statement   *)
(* is given by its select list, the two columns of its ON clause in the    *)
(* order written, and what follows the ON clause.                          *)
(***************************************************************************)
MaxJoinRows == 2

JoinTables == {"main", "other"}

\* main(id int primary key, cola int); other(id int primary key, colb int),
\* other(colb int, id int primary key) and other(colb int, id int), which
\* has the synthetic rowid as its key
JoinSchemas ==
    [main |-> {<<ColumnDefinition("id", TRUE), ColumnDefinition("cola", FALSE)>>},
     other |-> {<<ColumnDefinition("id", TRUE), ColumnDefinition("colb", FALSE)>>,
                <<ColumnDefinition("colb", FALSE), ColumnDefinition("id", TRUE)>>,
                <<ColumnDefinition("colb", FALSE), ColumnDefinition("id", FALSE)>>}]

JoinValues == {<<1, 1>>, <<2, 1>>, <<2, 2>>}

\* The ON clauses: a column of main and a column of other, and one with
\* no column of the joined table.
JoinColumns ==
    {<<"main.id", "other.id">>, <<"main.cola", "other.id">>,
     <<"main.id", "other.colb">>, <<"main.cola", "other.colb">>,
     <<"main.id", "main.cola">>}

JoinText(select_list, on, rest) ==
    "select " \o select_list \o " from main join other on "
    \o on[1] \o " = " \o on[2] \o rest

\* The statements, each ON clause written in both orders.
JoinStatements ==
    {[type |-> "execute", db |-> 1, select_list |-> l, on |-> o, rest |-> r,
      text |-> JoinText(l, o, r)] :
        l \in {"main.cola, other.colb", "main.id"},
        o \in JoinColumns \cup {<<c[2], c[1]>> : c \in JoinColumns},
        r \in {"", " where main.cola = 1", " order by other.colb desc"}}

\* parse(text) of each statement, parsed once
JoinParsed == {[text |-> q.text, parsed |-> parse(q.text)] : q \in JoinStatements}

parsed_text(text) == (CHOOSE p \in JoinParsed : p.text = text).parsed

JoinInit ==
    /\ tables = <<[main |-> NoTable, other |-> NoTable],
                  [main |-> NoTable, other |-> NoTable]>>
    /\ data = [main |-> <<>>, other |-> <<>>]
    /\ command = NoCommand
    /\ result = NoResult
    /\ TreeIdle

JoinCreateTable ==
    \E t \in JoinTables : \E s \in JoinSchemas[t] :
        ExecuteCreateTable(1, CreateTable(t, s))

JoinInsert ==
    \E t \in JoinTables : \E v \in JoinValues :
        /\ Len(data[t]) < MaxJoinRows
        /\ ExecuteInsert(1, Insert(t, v))

\* execute(command) of the text of a SELECT
ExecuteText(db, cmd) ==
    /\ command' = cmd
    /\ \E out \in {execute_select(tables[db], data, parsed_text(cmd.text))} :
            result' = [NoResult EXCEPT !.raised = out.raised, !.rows = out.rows]
    /\ UNCHANGED <<tables, data, tree, last, nrepl>>

\* A SELECT leaves the tables as they are, so the states after a second
\* SELECT in a row add no tables: a SELECT is taken after a statement that
\* is not a SELECT.
JoinSelect ==
    /\ command.type # "execute"
    /\ \E q \in JoinStatements : ExecuteText(1, q)

JoinNext == JoinCreateTable \/ JoinInsert \/ JoinSelect

SpecJoin == JoinInit /\ [][JoinNext]_vars

\* The table that a column text names.
TableOf(column) == column_consumer(column, 0).value.table

\* The executed statement with the columns of its ON clause exchanged.
Exchanged(cmd) ==
    [cmd EXCEPT !.on = <<cmd.on[2], cmd.on[1]>>,
                !.text = JoinText(cmd.select_list, <<cmd.on[2], cmd.on[1]>>, cmd.rest)]

\* A SELECT was executed whose ON clause names the joined table, other, on
\* exactly one side.
JoinExecuted ==
    /\ command.type = "execute"
    /\ (TableOf(command.on[1]) = "other") # (TableOf(command.on[2]) = "other")

\* C13: for JOIN t ON a = b with the column of t on either side, the column
\* of t is stored as the join's right column and the other as its left
\* column, and the statement with a and b exchanged parses to the same
\* statement and returns the same result.
C13_JoinOrientation ==
    JoinExecuted =>
        /\ parsed_text(command.text).raised = ""
        /\ parsed_text(command.text).statement.from_clause.joins[1].right.table = "other"
        /\ parsed_text(command.text).statement.from_clause.joins[1].left.table # "other"
        /\ parsed_text(Exchanged(command).text) = parsed_text(command.text)
        /\ \E out \in {execute_select(tables[command.db], data,
                                      parsed_text(Exchanged(command).text))} :
                result = [NoResult EXCEPT !.raised = out.raised, !.rows = out.rows]

\* A join written with the joined table's column before the = returned rows.
C13_Witness ==
    /\ JoinExecuted
    /\ TableOf(command.on[1]) = "other"
    /\ result.raised = ""
    /\ Len(result.rows) >= 2

\* The join of the executed statement, and the table it joins.
ExecutedJoin == parsed_text(command.text).statement.from_clause.joins[1]

RightTable == tables[command.db].other

\* The position of the join's right column among the columns of the right
\* table, 0 when it is none of them.
RightColumnIndex == column_index(column_references(RightTable), ExecutedJoin.right)

\* A SELECT was executed whose join has the primary key of the right table
\* as its right column.
JoinOnPrimaryKey ==
    /\ command.type = "execute"
    /\ parsed_text(command.text).raised = ""
    /\ RightTable.exists
    /\ RightColumnIndex # 0
    /\ ExecutedJoin.right.column = RightTable.pk_def.name

\* The values a left row may hold in the join's left column: those stored
\* and one that is not.
LeftValues == 0..3

\* C27: for a join whose right column is the right table's primary key, the
\* rows the executor appends to a left row by index lookup are the rows it
\* would append by scanning the right table and keeping the rows whose
\* right-column value equals the left row's value; a left row with no match
\* gets none.
C27_IndexLookupIsScan ==
    JoinOnPrimaryKey =>
        \A v \in LeftValues :
            _select_join_rows(RightTable, data.other, ExecutedJoin, v)
                = matching_rows(Table_scan(RightTable, data.other, None, None),
                                RightColumnIndex, v, 1)

\* The same for the tables whose primary key is their first declared column.
IndexLookupIsScanKeyFirst ==
    (JoinOnPrimaryKey /\ RightTable.column_defs[1].pk) => C27_IndexLookupIsScan

\* C28: an UPDATE, whatever columns its SET list assigns (the primary-key
\* column included), never changes the number of rows of the table nor the
\* set of primary-key values in its index, and never changes the slot that a
\* primary-key value maps to.
C28_UpdateFrame ==
    [][(command'.type = "update" /\ tables[command'.db]["main"].exists) =>
          /\ Len(data'["main"]) = Len(data["main"])
          /\ IndexKeys(tables'[command'.db]["main"])
                = IndexKeys(tables[command'.db]["main"])
          /\ \A k \in IndexKeys(tables[command'.db]["main"]) :
                BTree_search(tables'[command'.db]["main"].pk_index, k)
                    = BTree_search(tables[command'.db]["main"].pk_index, k)]_vars

\* The same for the UPDATEs that do not assign the primary-key column.
UpdateFrameOtherColumns ==
    [][(/\ command'.type = "update"
        /\ tables[command'.db]["main"].exists
        /\ command'.set_columns = <<main_cola>>) =>
          /\ Len(data'["main"]) = Len(data["main"])
          /\ tables'[command'.db]["main"] = tables[command'.db]["main"]]_vars

\* The executed SELECT, and what _get_rows yields for its main table.
ExecutedSelect == parsed_text(command.text).statement

MainRows ==
    _get_rows(tables[command.db].main, data.main, ExecutedSelect.where)

\* A SELECT with a join was executed on two existing tables, and its main
\* table yielded no rows.
JoinOfNoRows ==
    /\ command.type = "execute"
    /\ parsed_text(command.text).raised = ""
    /\ tables[command.db].main.exists
    /\ tables[command.db].other.exists
    /\ MainRows = ReadAll("", <<>>)

\* C30: a SELECT with one or more joins whose main table yields no rows
\* returns an empty list without error, also when the select list names
\* columns of a joined table.
C30_EmptyJoin ==
    JoinOfNoRows => (result.raised = "" /\ result.rows = <<>>)

\* The same for the statements whose select list and ORDER BY name columns of
\* the main table only.
EmptyJoinMainColumns ==
    (/\ JoinOfNoRows
     /\ \A c \in Range(ExecutedSelect.columns) : c.table = "main"
     /\ \A c \in Range(ExecutedSelect.order_by.columns) : c.table = "main")
        => (result.raised = "" /\ result.rows = <<>>)

(***************************************************************************)
(* Claims about the shape of the B+-tree.                                  *)
(***************************************************************************)
RECURSIVE LeavesUnder(_, _)
\* The leaves under node id from left to right, found through children only.
LeavesUnder(h, id) ==
    IF h[id].leaf THEN <<id>>
    ELSE LET under[i \in 0..Len(h[id].children)] ==
                 IF i = 0 THEN <<>>
                 ELSE under[i - 1] \o LeavesUnder(h, h[id].children[i])
         IN  under[Len(h[id].children)]

\* The leaves of the tree from left to right.
TreeLeaves == LeavesUnder(tree.heap, tree.root)

\* C21: after every insert the leaves reachable from the root form one doubly
\* linked list in ascending key order: next from the leftmost leaf visits the
\* tree's leaves left to right, prev from the rightmost leaf visits them right
\* to left, and l.next = r if and only if r.prev = l.
C21_LeafList ==
    \A i \in 1..Len(TreeLeaves) :
        /\ tree.heap[TreeLeaves[i]].next =
              (IF i = Len(TreeLeaves) THEN None ELSE TreeLeaves[i + 1])
        /\ tree.heap[TreeLeaves[i]].prev =
              (IF i = 1 THEN None ELSE TreeLeaves[i - 1])

RECURSIVE LeafDepths(_, _)
\* The depths of the leaves under node id, the node itself at depth 0.
LeafDepths(h, id) ==
    IF h[id].leaf THEN {0}
    ELSE UNION {{n + 1 : n \in LeafDepths(h, c)} : c \in Range(h[id].children)}

RECURSIVE NodesUnder(_, _)
\* The nodes under node id, itself included, found through children only.
NodesUnder(h, id) ==
    IF h[id].leaf THEN {id}
    ELSE {id} \cup UNION {NodesUnder(h, c) : c \in Range(h[id].children)}

\* The interior nodes of the tree.
InteriorNodes == {id \in NodesUnder(tree.heap, tree.root) : ~tree.heap[id].leaf}

\* C22: after any sequence of inserts all leaves are at the same depth, every
\* interior node has one more child than keys, and for every separator key of
\* an interior node the keys of the subtree to its left are smaller and the
\* keys of the subtree to its right are greater than or equal to it.
C22_Balanced ==
    /\ Cardinality(LeafDepths(tree.heap, tree.root)) = 1
    /\ \A id \in InteriorNodes :
          /\ Len(tree.heap[id].children) = Len(tree.heap[id].keys) + 1
          /\ \A i \in 1..Len(tree.heap[id].keys) :
                /\ i + 1 <= Len(tree.heap[id].children)
                /\ \A k \in TreeKeys(tree.heap, tree.heap[id].children[i]) :
                      k < tree.heap[id].keys[i]
                /\ \A k \in TreeKeys(tree.heap, tree.heap[id].children[i + 1]) :
                      k >= tree.heap[id].keys[i]

\* A tree of height 3 whose root has two separators.
C22_Witness ==
    /\ Height(tree.heap, tree.root) >= 3
    /\ Len(tree.heap[tree.root].keys) >= 2

\* ceil(d / 2) and floor(d / 2)
CeilHalf(d) == (d + 1) \div 2

FloorHalf(d) == d \div 2

\* The nodes of the tree other than the root.
NonRootNodes == NodesUnder(tree.heap, tree.root) \ {tree.root}

\* Every interior node other than the root has at least ceil(degree / 2)
\* children.
InteriorHalfFull ==
    \A id \in NonRootNodes :
        ~tree.heap[id].leaf => Len(tree.heap[id].children) >= CeilHalf(tree.degree)

\* C23 as stated: for every degree >= 3 and after any sequence of inserts,
\* every leaf other than the root holds at least ceil(degree / 2) keys and
\* every interior node other than the root has at least ceil(degree / 2)
\* children.
C23_HalfFullCeil ==
    /\ InteriorHalfFull
    /\ \A id \in NonRootNodes :
          tree.heap[id].leaf => Len(tree.heap[id].keys) >= CeilHalf(tree.degree)

\* C23 amended: every leaf other than the root holds at least
\* floor(degree / 2) keys, and every interior node other than the root has at
\* least ceil(degree / 2) children.
C23_HalfFull ==
    /\ InteriorHalfFull
    /\ \A id \in NonRootNodes :
          tree.heap[id].leaf => Len(tree.heap[id].keys) >= FloorHalf(tree.degree)

\* A tree with an interior node under the root and a leaf that holds exactly
\* floor(degree / 2) keys.
C23_Witness ==
    /\ \E id \in NonRootNodes : ~tree.heap[id].leaf
    /\ \E id \in NonRootNodes :
          tree.heap[id].leaf /\ Len(tree.heap[id].keys) = FloorHalf(tree.degree)

(***************************************************************************)
(* try_consume(parsed_string, LITERALS) step by step, on a ParsedString    *)
(* with its index and its tried_start_index.  command holds the string and *)
(* the index of the call, result the frame of the call: where it is (pc),  *)
(* the ParsedString (ps), the potential the for loop is at, and what the   *)
(* call returned or raised.                                                *)
(***************************************************************************)
ParsedString(index) == [index |-> index, tried_start_index |-> None]

try_start(ps) == [ps EXCEPT !.tried_start_index = ps.index]

\* the index left where the failed potential left it
try_revert_kept(ps) == ps

try_revert(ps) == [ps EXCEPT !.index = ps.tried_start_index]

is_trying(ps) == ps.tried_start_index # None

try_end(ps) == [ps EXCEPT !.tried_start_index = None]

\* LITERALS = [integer_literal, string_literal, column_consumer]
LITERALS(p, string, index) ==
    CASE p = 1 -> integer_literal(string, index)
      [] p = 2 -> string_literal(string, index)
      [] p = 3 -> column_consumer(string, index)

\* The texts an operand is read from, from its first character or later.
OperandStrings ==
    {"12", " 7 ", "'a'", "''", " 'a", "'it''s'", "'it''", "main.id", " main",
     "main.", "main.id AS x", "main.id AS ", ".", "", "  ", "= 1", "x.y = 'a",
     "a.b in (1, 'c', d.e, f)"}

TryCalls ==
    UNION {{[type |-> "try_consume", string |-> s, index |-> i] : i \in 0..Len(s)} :
              s \in OperandStrings}

Frame(pc, ps, potential, raised, value, index) ==
    [pc |-> pc, ps |-> ps, potential |-> potential, raised |-> raised,
     value |-> value, index |-> index]

TryInit ==
    /\ tables = <<[main |-> NoTable], [main |-> NoTable]>>
    /\ data = [main |-> <<>>]
    /\ TreeIdle
    /\ command \in TryCalls
    /\ result = Frame("try_start", ParsedString(command.index), 1, "", <<>>, None)

\* parsed_string.try_start()
TryStart ==
    /\ result.pc = "try_start"
    /\ result' = [result EXCEPT !.pc = "for", !.ps = try_start(result.ps)]
    /\ UNCHANGED <<command, tables, data, tree, last, nrepl>>

\* r = p(parsed_string), and return r or except ParseException
TryPotential ==
    /\ result.pc = "for"
    /\ result.potential <= 3
    /\ \E r \in {LITERALS(result.potential, command.string, result.ps.index)} :
          result' = IF r.raised = ""
                    THEN [result EXCEPT !.pc = "finally", !.ps.index = r.index,
                                        !.value = <<r.value>>]
                    ELSE [result EXCEPT !.pc = "except", !.ps.index = r.index]
    /\ UNCHANGED <<command, tables, data, tree, last, nrepl>>

\* except ParseException: parsed_string.try_revert()
TryRevert ==
    /\ result.pc = "except"
    /\ result' = [result EXCEPT !.pc = "for", !.ps = try_revert(result.ps),
                                !.potential = result.potential + 1]
    /\ UNCHANGED <<command, tables, data, tree, last, nrepl>>

\* raise ParseException(expected=potentials, actual=None, index=parsed_string.index)
TryRaise ==
    /\ result.pc = "for"
    /\ result.potential > 3
    /\ result' = [result EXCEPT !.pc = "finally", !.raised = ParseException,
                                !.index = result.ps.index]
    /\ UNCHANGED <<command, tables, data, tree, last, nrepl>>

\* finally: parsed_string.try_end()
TryEnd ==
    /\ result.pc = "finally"
    /\ result' = [result EXCEPT !.pc = "done", !.ps = try_end(result.ps)]
    /\ UNCHANGED <<command, tables, data, tree, last, nrepl>>

TryNext == TryStart \/ TryPotential \/ TryRevert \/ TryRaise \/ TryEnd

SpecTry == TryInit /\ [][TryNext]_vars

\* C24: whenever try_consume returns or raises, the checkpoint is released
\* (is_trying() is false); after each failed alternative the cursor is back
\* at the checkpoint position before the next alternative is tried, and when
\* all alternatives fail the cursor is at the checkpoint position when the
\* parse error is raised.
C24_CheckpointReleased ==
    /\ result.pc = "done" => ~is_trying(result.ps)
    /\ (result.pc = "for" /\ result.potential > 1) => result.ps.index = command.index
    /\ (result.pc \in {"finally", "done"} /\ result.raised # "") =>
          /\ result.ps.index = command.index
          /\ result.index = command.index

\* Every alternative failed, the last one after it moved the cursor, and the
\* call has raised.
C24_Witness ==
    /\ result.pc = "done"
    /\ result.raised = ParseException
    /\ LITERALS(3, command.string, command.index).index > command.index

\* The call step by step ends as the call in one piece does.
TryAgrees ==
    result.pc = "done" =>
        /\ result.raised = try_consume(command.string, command.index).raised
        /\ result.raised = "" =>
              result.value = <<try_consume(command.string, command.index).value>>

\* A comparison of two literals.
LiteralComparison(e) ==
    /\ type_of(e) \in ComparisonClasses
    /\ is_literal(e.left)
    /\ is_literal(e.right)

RECURSIVE Constant(_)
\* And, Or and Not over comparisons of two literals.
Constant(e) ==
    CASE type_of(e) \in {"And", "Or"} -> Constant(e.left) /\ Constant(e.right)
      [] type_of(e) = "Not" -> Constant(e.operation)
      [] type_of(e) \in ComparisonClasses -> LiteralComparison(e)
      [] OTHER -> FALSE

\* The truth value of an expression that names no column.
TruthValue(e) == evaluate(e, <<>>, <<>>)

\* A constant expression with the given truth value.
ConstantOf(e, value) ==
    Constant(e) /\ TruthValue(e) = [raised |-> "", value |-> value]

\* TrueOp() or FalseOp() for a truth value.
Folded(value) == Simplified("", IF value THEN TrueOp ELSE FalseOp)

\* C25: a comparison of two literals simplifies to a TrueOp or FalseOp
\* instance equal to its truth value, so And, Or and Not over such
\* comparisons simplify to TrueOp or FalseOp by their rules (And with a false
\* side is FalseOp whatever the other side is, Or with a true side is
\* TrueOp), and the result can be evaluated in any context.
C25_ConstantFolding ==
    (command.type = "simplify" /\ result # NoResult) =>
        /\ \A v \in BOOLEAN :
              ConstantOf(command.expr, v) =>
                  /\ result = Folded(v)
                  /\ evaluate(result.expr, <<1, 1>>, <<main_id, main_cola>>)
                        = [raised |-> "", value |-> v]
        /\ (/\ type_of(command.expr) = "And"
            /\ \/ ConstantOf(command.expr.left, FALSE)
               \/ ConstantOf(command.expr.right, FALSE)) => result = Folded(FALSE)
        /\ (/\ type_of(command.expr) = "Or"
            /\ \/ ConstantOf(command.expr.left, TRUE)
               \/ ConstantOf(command.expr.right, TRUE)) => result = Folded(TRUE)

\* The row contexts expressions are evaluated in: a row of main(id, cola).
Contexts == {<<i, c>> : i \in 1..3, c \in 1..3}

\* C26: for every expression e and every row context in which e evaluates
\* without error, simplify(e) evaluates to the same truth value as e,
\* including <, <=, >, >= written with the literal on the left and the
\* column on the right.
C26_SimplifyPreservesMeaning ==
    (command.type = "simplify" /\ result # NoResult) =>
        \A row \in Contexts :
            evaluate(command.expr, row, <<main_id, main_cola>>).raised = "" =>
                /\ result.raised = ""
                /\ evaluate(result.expr, row, <<main_id, main_cola>>)
                      = evaluate(command.expr, row, <<main_id, main_cola>>)

\* The same for the expressions in which no comparison has two literals and
\* no ordering has its literal on the left.
RECURSIVE Plain(_)
Plain(e) ==
    CASE type_of(e) \in {"And", "Or"} -> Plain(e.left) /\ Plain(e.right)
      [] type_of(e) = "Not" -> Plain(e.operation)
      [] type_of(e) \in ComparisonClasses ->
            /\ ~LiteralComparison(e)
            /\ (is_literal(e.left) => type_of(e) \in {"Equals", "NotEquals"})
      [] OTHER -> TRUE

PlainPreserved ==
    (command.type = "simplify" /\ result # NoResult /\ Plain(command.expr)) =>
        \A row \in Contexts :
            evaluate(command.expr, row, <<main_id, main_cola>>).raised = "" =>
                /\ result.raised = ""
                /\ evaluate(result.expr, row, <<main_id, main_cola>>)
                      = evaluate(command.expr, row, <<main_id, main_cola>>)

\* A from-clause written with LEFT JOIN was parsed.
LeftJoinParsed ==
    /\ command.type = "parse"
    /\ result # NoResult
    /\ Len(command.words) = 9
    /\ lower(command.words[6]) = "left join"

\* C29: a from-clause written with LEFT JOIN parses to the same join (same
\* joined table, same left and right columns) as the same clause written
\* with JOIN: a From with one JoinTable for the joined table.
C29_LeftJoin ==
    LeftJoinParsed =>
        /\ result = parse(text_from([command.words EXCEPT ![6] = "join"],
                                    command.uppercase, 1))
        /\ result.raised = ""
        /\ Len(result.statement.from_clause.joins) = 1
        /\ result.statement.from_clause.joins[1].table = "other"

====
